---- MODULE Spec2Model ----
(***************************************************************************)
(* Verification model of the zk-passport-integration document codec and    *)
(* authentication engine: registry key derivation (hashPacked), MRZ        *)
(* construction (generateDG1), passport persistence and the Active         *)
(* Authentication sign / verify pair.                                      *)
(*                                                                         *)
(* Buffers are sequences of bytes (0..255).  A JavaScript bigint is the    *)
(* big-endian sequence of its base-256 digits without leading zeros, so    *)
(* the empty sequence is 0n.                                               *)
(***************************************************************************)
EXTENDS Integers, Sequences, FiniteSets, TLC

VARIABLES
    hpPc,        \* hashPacked caller: "idle" | "loaded" | "done"
    hpInput,     \* byteArray handed to hashPacked
    hpResult,    \* outcome of the last hashPacked call
    mrzInput,    \* PassportData record handed to generateDG1
    mrzResult,   \* outcome of the last generateDG1 call
    files,       \* passport documents in data/out_passport, oldest first
    run,         \* the last generate-passport / update-aa-sig command run
    auth,        \* the last stand-alone authenticate call and its outcome
    derInput,    \* buffer and offset handed to the DER length readers
    derResult,   \* what each copy of parseDERLength returned for derInput
    certInput,   \* certificate file handed to the certificate parsers
    certResult,  \* outcome of the last certificate parser call
    sodInput,    \* data groups, certificate and clock handed to generateSOD
    sodResult,   \* the SOD built from sodInput and what was read back from it
    tmpFiles,    \* temporary certificate files that exist on disk
    tmpCall,     \* the call that works through a temporary certificate file
    circuit      \* processSingleCircuit: its children and its promise

hpVars == <<hpPc, hpInput, hpResult>>
mrzVars == <<mrzInput, mrzResult>>
aaVars == <<files, run, auth>>
derVars == <<derInput, derResult>>
certVars == <<certInput, certResult>>
sodVars == <<sodInput, sodResult>>
tmpVars == <<tmpFiles, tmpCall>>
circuitVars == <<circuit>>
vars == <<hpPc, hpInput, hpResult, mrzInput, mrzResult, files, run, auth,
          derInput, derResult, certInput, certResult, sodInput, sodResult,
          tmpFiles, tmpCall, circuit>>

None == [kind |-> "none"]

(***************************************************************************)
(* Buffer and bigint primitives                                            *)
(***************************************************************************)
Min(a, b) == IF a < b THEN a ELSE b
Max(a, b) == IF a > b THEN a ELSE b

Zeros(k) == [i \in 1..k |-> 0]

\* Buffer.prototype.slice(start, end): negative indexes count from the end,
\* both are clamped to the buffer, an inverted range is empty.
BufferSlice(buf, start, end) ==
    LET len == Len(buf)
        s == IF start < 0 THEN Max(len + start, 0) ELSE Min(start, len)
        e == IF end < 0 THEN Max(len + end, 0) ELSE Min(end, len)
    IN IF e <= s THEN << >> ELSE SubSeq(buf, s + 1, e)

\* Value of a digit string: leading zero digits carry no value.
StripZeros(s) ==
    IF \A i \in 1..Len(s) : s[i] = 0 THEN << >>
    ELSE SubSeq(s, CHOOSE i \in 1..Len(s) : s[i] # 0 /\ \A j \in 1..(i - 1) : s[j] = 0,
                Len(s))

\* Left-pad a digit string with zeros to k digits (longer strings are kept).
PadLeft(s, k) == IF Len(s) >= k THEN s ELSE Zeros(k - Len(s)) \o s

RECURSIVE BitAnd(_, _)
BitAnd(a, b) ==
    IF a = 0 \/ b = 0 THEN 0
    ELSE (IF a % 2 = 1 /\ b % 2 = 1 THEN 1 ELSE 0) + 2 * BitAnd(a \div 2, b \div 2)

RECURSIVE BitOr(_, _)
BitOr(a, b) ==
    IF a = 0 THEN b
    ELSE IF b = 0 THEN a
    ELSE (IF a % 2 = 1 \/ b % 2 = 1 THEN 1 ELSE 0) + 2 * BitOr(a \div 2, b \div 2)

\* bigint x >> (8 * k)
BigShrBytes(x, k) == IF Len(x) <= k THEN << >> ELSE SubSeq(x, 1, Len(x) - k)

\* bigint x << (8 * k)
BigShlBytes(x, k) == IF x = << >> THEN << >> ELSE x \o Zeros(k)

\* bigint a & b
BigAnd(a, b) ==
    LET n == Min(Len(a), Len(b))
        pa == SubSeq(a, Len(a) - n + 1, Len(a))
        pb == SubSeq(b, Len(b) - n + 1, Len(b))
    IN StripZeros([i \in 1..n |-> BitAnd(pa[i], pb[i])])

\* bigint a | b
BigOr(a, b) ==
    LET n == Max(Len(a), Len(b))
        pa == PadLeft(a, n)
        pb == PadLeft(b, n)
    IN StripZeros([i \in 1..n |-> BitOr(pa[i], pb[i])])

(***************************************************************************)
(* Registry key derivation: hashPacked                                     *)
(***************************************************************************)
MinByteArrayLen == 120
ElementLen == 32
PositionStep == 24
DecomposedLen == 5
ChunkCount == 3
ChunkBytes == 8

\* 0xffffffffffffffffn
Mask64 == [i \in 1..ChunkBytes |-> 255]

\* ReverseChunks keeping the chunks in their original order.
RECURSIVE ReverseChunks_SameOrder(_, _, _)
ReverseChunks_SameOrder(elementBigInt, j, reversed) ==
    IF j >= ChunkCount THEN reversed
    ELSE LET extracted ==
                 BigAnd(BigShrBytes(elementBigInt, (ChunkCount - 1 - j) * ChunkBytes), Mask64)
         IN ReverseChunks_SameOrder(elementBigInt, j + 1,
                                    BigOr(BigShlBytes(reversed, ChunkBytes), extracted))

\* Inner loop of hashPacked: three 64-bit chunks, lowest first, pushed into
\* reversed from the right.
RECURSIVE ReverseChunks(_, _, _)
ReverseChunks(elementBigInt, j, reversed) ==
    IF j >= ChunkCount THEN reversed
    ELSE LET extracted == BigAnd(BigShrBytes(elementBigInt, j * ChunkBytes), Mask64)
         IN ReverseChunks(elementBigInt, j + 1,
                          BigOr(BigShlBytes(reversed, ChunkBytes), extracted))

\* Outer loop of hashPacked.  reads logs every slice taken from byteArray as
\* [from, to, bytes]; BigInt('0x' + '') of an empty slice is a SyntaxError.
RECURSIVE HashPackedLoop(_, _, _, _, _)
HashPackedLoop(byteArray, i, position, reads, decomposed) ==
    IF i >= DecomposedLen
    THEN [kind |-> "return", reads |-> reads, poseidonCalls |-> 1,
          value |-> [poseidon |-> decomposed]]
    ELSE LET element == BufferSlice(byteArray, position - ElementLen, position)
             read == [from |-> position - ElementLen, to |-> position, bytes |-> element]
         IN IF element = << >>
            THEN [kind |-> "throw", error |-> "SyntaxError",
                  reads |-> Append(reads, read), poseidonCalls |-> 0]
            ELSE HashPackedLoop(byteArray, i + 1, position - PositionStep,
                                Append(reads, read),
                                Append(decomposed,
                                       ReverseChunks(StripZeros(element), 0, << >>)))

\* hashPacked with the length guard off by one.
hashPacked_GuardOffByOne(byteArray) ==
    IF Len(byteArray) < MinByteArrayLen - 1
    THEN [kind |-> "throw", error |-> "InvalidModulusLength",
          reads |-> << >>, poseidonCalls |-> 0]
    ELSE HashPackedLoop(byteArray, 0, Len(byteArray), << >>, << >>)

hashPacked(byteArray) ==
    IF Len(byteArray) < MinByteArrayLen
    THEN [kind |-> "throw", error |-> "InvalidModulusLength",
          reads |-> << >>, poseidonCalls |-> 0]
    ELSE HashPackedLoop(byteArray, 0, Len(byteArray), << >>, << >>)

\* Bounds of the byte arrays handed to hashPacked.
HpMinLen == 116
HpMaxLen == 131

\* Byte patterns (multiplier, offset): byte i of the array is (i*m + o) mod 256.
HpPatterns == { <<1, 0>>, <<7, 3>>, <<0, 0>>, <<0, 255>>, <<37, 128>> }

HpBytes(len, pat) == [i \in 1..len |-> ((i - 1) * pat[1] + pat[2]) % 256]

HpIdle ==
    /\ hpPc = "idle"
    /\ hpInput = << >>
    /\ hpResult = None

\* A caller obtains a modulus byte sequence.
HpLoad ==
    /\ hpPc \in {"idle", "done"}
    /\ \E len \in HpMinLen..HpMaxLen, pat \in HpPatterns :
         hpInput' = HpBytes(len, pat)
    /\ hpPc' = "loaded"
    /\ hpResult' = None
    /\ UNCHANGED <<mrzVars, aaVars, derVars, certVars, sodVars, tmpVars, circuitVars>>

\* The caller derives the registry key of the loaded modulus.
HpDerive ==
    /\ hpPc = "loaded"
    /\ hpResult' = hashPacked(hpInput)
    /\ hpPc' = "done"
    /\ UNCHANGED <<hpInput, mrzVars, aaVars, derVars, certVars, sodVars, tmpVars, circuitVars>>

(***************************************************************************)
(* Document builder: the machine readable zone (generateDG1)               *)
(* Strings are sequences of one-character strings.                         *)
(***************************************************************************)
Letters == << "A", "B", "C", "D", "E", "F", "G", "H", "I", "J", "K", "L", "M",
              "N", "O", "P", "Q", "R", "S", "T", "U", "V", "W", "X", "Y", "Z" >>
Digits == << "0", "1", "2", "3", "4", "5", "6", "7", "8", "9" >>

IndexOf(seq, c) == CHOOSE i \in 1..Len(seq) : seq[i] = c
Range(seq) == { seq[i] : i \in 1..Len(seq) }

\* String.prototype.padEnd(n, c)
padEnd(str, n, c) == IF Len(str) >= n THEN str ELSE str \o [i \in 1..(n - Len(str)) |-> c]

\* String.prototype.substring(0, n)
substring0(str, n) == SubSeq(str, 1, Min(Max(n, 0), Len(str)))

\* givenNames.replace(/ /g, '<')
replaceSpaces(str) == [i \in 1..Len(str) |-> IF str[i] = " " THEN "<" ELSE str[i]]

checkDigitWeights == << 7, 3, 1 >>

\* The number NaN (kept apart from every check digit 0..9).
NaN == 0 - 1

charValues ==
    [c \in {"<"} \cup Range(Letters) |-> IF c = "<" THEN 0 ELSE 9 + IndexOf(Letters, c)]

\* The loop of calculateCheckDigit; a character that is neither a digit nor a
\* key of charValues has value undefined and turns the sum into NaN.
RECURSIVE CheckDigitLoop(_, _, _)
CheckDigitLoop(data, i, sum) ==
    IF i > Len(data) THEN sum % 10
    ELSE LET char == data[i]
         IN IF char \in Range(Digits)
            THEN CheckDigitLoop(data, i + 1,
                     sum + (IndexOf(Digits, char) - 1) * checkDigitWeights[((i - 1) % 3) + 1])
            ELSE IF char \in DOMAIN charValues
            THEN CheckDigitLoop(data, i + 1,
                     sum + charValues[char] * checkDigitWeights[((i - 1) % 3) + 1])
            ELSE NaN

\* calculateCheckDigit weighting every position with 7.
calculateCheckDigit_FlatWeights(data) ==
    LET v(c) == IF c \in Range(Digits) THEN IndexOf(Digits, c) - 1 ELSE charValues[c]
        RECURSIVE S(_)
        S(i) == IF i = 0 THEN 0 ELSE S(i - 1) + 7 * v(data[i])
    IN IF \A i \in 1..Len(data) : data[i] \in Range(Digits) \cup DOMAIN charValues
       THEN S(Len(data)) % 10 ELSE NaN

calculateCheckDigit(data) == CheckDigitLoop(data, 1, 0)

\* `${check}` inside a template string
NumberToString(check) == IF check = NaN THEN << "N", "a", "N" >> ELSE << Digits[check + 1] >>

maxNameLength == 39
MrzLineLength == 44
PersonalNumberLength == 14

Default(passportData, field, default) ==
    IF field \in DOMAIN passportData THEN passportData[field] ELSE default

\* namesPartOf leaving one character too few to the given names.
namesPartOf_ShortByOne(surname, givenNames) ==
    LET givenNamesFormatted == replaceSpaces(givenNames)
        namesPart == surname \o << "<", "<" >> \o givenNamesFormatted
        surnameWithSeparator == surname \o << "<", "<" >>
    IN IF Len(namesPart) > maxNameLength
       THEN IF Len(surnameWithSeparator) >= maxNameLength
            THEN substring0(surname, maxNameLength - 2) \o << "<", "<" >>
            ELSE surnameWithSeparator
                 \o substring0(givenNamesFormatted,
                               maxNameLength - Len(surnameWithSeparator) - 1)
       ELSE namesPart

\* The name field of line 1 (generateDG1, "Truncate if too long").
namesPartOf(surname, givenNames) ==
    LET givenNamesFormatted == replaceSpaces(givenNames)
        namesPart == surname \o << "<", "<" >> \o givenNamesFormatted
        surnameWithSeparator == surname \o << "<", "<" >>
    IN IF Len(namesPart) > maxNameLength
       THEN IF Len(surnameWithSeparator) >= maxNameLength
            THEN substring0(surname, maxNameLength - 2) \o << "<", "<" >>
            ELSE surnameWithSeparator
                 \o substring0(givenNamesFormatted, maxNameLength - Len(surnameWithSeparator))
       ELSE namesPart

generateDG1(passportData) ==
    LET documentType == Default(passportData, "documentType", << "P" >>)
        issuingCountry == Default(passportData, "issuingCountry", << "I", "T", "A" >>)
        surname == Default(passportData, "surname",
                           << "E", "R", "I", "K", "S", "S", "O", "N" >>)
        givenNames == Default(passportData, "givenNames",
                              << "A", "N", "N", "A", " ", "M", "A", "R", "I", "A" >>)
        passportNumber == Default(passportData, "passportNumber",
                                  << "L", "8", "9", "8", "9", "0", "2", "C", "3" >>)
        nationality == Default(passportData, "nationality", << "I", "T", "A" >>)
        dateOfBirth == Default(passportData, "dateOfBirth", << "7", "4", "0", "8", "1", "2" >>)
        sex == Default(passportData, "sex", << "F" >>)
        expiryDate == Default(passportData, "expiryDate", << "1", "2", "0", "4", "1", "5" >>)
        personalNumber == Default(passportData, "personalNumber",
                                  << "Z", "E", "1", "8", "4", "2", "2", "6", "B" >>)
        passportCheck == calculateCheckDigit(passportNumber)
        dobCheck == calculateCheckDigit(dateOfBirth)
        expiryCheck == calculateCheckDigit(expiryDate)
        personalCheck == calculateCheckDigit(personalNumber)
        line1 == padEnd(documentType \o << "<" >> \o issuingCountry
                        \o namesPartOf(surname, givenNames), MrzLineLength, "<")
        personalNumberPadded == padEnd(personalNumber, PersonalNumberLength, "<")
        compositeData == passportNumber \o NumberToString(passportCheck) \o nationality
                         \o dateOfBirth \o NumberToString(dobCheck) \o sex
                         \o expiryDate \o NumberToString(expiryCheck)
                         \o personalNumberPadded \o NumberToString(personalCheck)
        compositeCheck == calculateCheckDigit(compositeData)
        line2 == compositeData \o NumberToString(compositeCheck)
    IN IF Len(line1) # MrzLineLength
       THEN [kind |-> "throw", error |-> "InvalidMRZLength", line |-> 1]
       ELSE IF Len(line2) # MrzLineLength
       THEN [kind |-> "throw", error |-> "InvalidMRZLength", line |-> 2]
       ELSE [kind |-> "return", mrzLine1 |-> line1, mrzLine2 |-> line2,
             surname |-> surname, givenNames |-> givenNames,
             passportNumber |-> passportNumber, dateOfBirth |-> dateOfBirth,
             expiryDate |-> expiryDate, personalNumber |-> personalNumber]

\* Bounds of the names handed to generateDG1.
MaxSurnameLen == 40
MaxGivenNamesLen == 34

\* A name of k letters: ABC...
LetterRun(k) == [i \in 1..k |-> Letters[((i - 1) % 26) + 1]]

MrzSurnames ==
    { << "E", "R", "I", "K", "S", "S", "O", "N" >>,
      << "V", "A", "N", " ", "D", "Y", "K", "E" >>,
      LetterRun(36), LetterRun(37), LetterRun(38), LetterRun(MaxSurnameLen) }

MrzGivenNames ==
    { << >>,
      << "A", "N", "N", "A", " ", "M", "A", "R", "I", "A" >>,
      << "J", "O" >> \o << " " >> \o LetterRun(MaxGivenNamesLen - 3) }

MrzPassportNumbers ==
    { << "L", "8", "9", "8", "9", "0", "2", "C", "3" >>,
      << "A", "B", "1", "2", "3", "4", "5", "6", "7" >>,
      << "L", "8", "9", "8", "9", "0", "2", "c", "3" >> }

MrzBirthDates ==
    { << "7", "4", "0", "8", "1", "2" >>, << "1", "0", "0", "0", "1", "0", "1" >> }

MrzPersonalNumbers ==
    { << "Z", "E", "1", "8", "4", "2", "2", "6", "B" >>,
      << "P", "0", "0", "0", "0", "0", "0", "4", "2", "<", "<", "<", "<", "<" >> }

MrzIdle ==
    /\ mrzInput = None
    /\ mrzResult = None

\* One call of generateDG1 on a caller-supplied PassportData record (the
\* document type is left to its default, as the generate-passport command does).
MrzGenerate ==
    /\ \E sn \in MrzSurnames, gn \in MrzGivenNames, pn \in MrzPassportNumbers,
          dob \in MrzBirthDates, pers \in MrzPersonalNumbers :
         LET passportData ==
                 [surname |-> sn, givenNames |-> gn, passportNumber |-> pn,
                  nationality |-> << "I", "T", "A" >>, dateOfBirth |-> dob,
                  sex |-> << "M" >>, expiryDate |-> << "3", "5", "1", "2", "3", "1" >>,
                  personalNumber |-> pers, issuingCountry |-> << "I", "T", "A" >>]
         IN /\ mrzInput' = passportData
            /\ mrzResult' = generateDG1(passportData)
    /\ UNCHANGED <<hpVars, aaVars, derVars, certVars, sodVars, tmpVars, circuitVars>>

(***************************************************************************)
(* bigint arithmetic used by modPow.  The recursive steps are functions,   *)
(* so that every argument is a value by the time a step runs.              *)
(***************************************************************************)
BigInts == Seq(0..255)

\* a >= b, for a and b of the same length, from digit i on
LexGE[a \in BigInts, b \in BigInts, i \in Nat] ==
    IF i > Len(a) THEN TRUE
    ELSE IF a[i] = b[i] THEN LexGE[a, b, i + 1] ELSE a[i] > b[i]

\* a >= b
BigGE[a \in BigInts, b \in BigInts] ==
    IF Len(a) # Len(b) THEN Len(a) > Len(b) ELSE LexGE[a, b, 1]

AddLoop[a \in BigInts, b \in BigInts, i \in Nat, carry \in Nat, acc \in BigInts] ==
    IF i = 0 THEN (IF carry = 0 THEN acc ELSE <<carry>> \o acc)
    ELSE AddLoop[a, b, i - 1, (a[i] + b[i] + carry) \div 256,
                 <<(a[i] + b[i] + carry) % 256>> \o acc]

\* a + b
BigAdd[a \in BigInts, b \in BigInts] ==
    AddLoop[PadLeft(a, Max(Len(a), Len(b))), PadLeft(b, Max(Len(a), Len(b))),
            Max(Len(a), Len(b)), 0, << >>]

SubLoop[a \in BigInts, b \in BigInts, i \in Nat, borrow \in Nat, acc \in BigInts] ==
    IF i = 0 THEN StripZeros(acc)
    ELSE IF a[i] - b[i] - borrow < 0
         THEN SubLoop[a, b, i - 1, 1, <<a[i] - b[i] - borrow + 256>> \o acc]
         ELSE SubLoop[a, b, i - 1, 0, <<a[i] - b[i] - borrow>> \o acc]

\* a - b, for a >= b
BigSub[a \in BigInts, b \in BigInts] ==
    SubLoop[a, PadLeft(b, Len(a)), Len(a), 0, << >>]

MulSmallLoop[a \in BigInts, k \in Nat, i \in Nat, carry \in Nat, acc \in BigInts] ==
    IF i = 0 THEN (IF carry = 0 THEN acc ELSE <<carry>> \o acc)
    ELSE MulSmallLoop[a, k, i - 1, (a[i] * k + carry) \div 256,
                      <<(a[i] * k + carry) % 256>> \o acc]

\* a * k, for one digit k
BigMulSmall[a \in BigInts, k \in Nat] ==
    IF k = 0 THEN << >> ELSE MulSmallLoop[a, k, Len(a), 0, << >>]

MulLoop[a \in BigInts, b \in BigInts, j \in Nat, acc \in BigInts] ==
    IF j > Len(b) THEN acc
    ELSE MulLoop[a, b, j + 1, BigAdd[BigShlBytes(acc, 1), BigMulSmall[a, b[j]]]]

\* a * b
BigMul[a \in BigInts, b \in BigInts] ==
    IF a = << >> THEN << >> ELSE MulLoop[a, b, 1, << >>]

\* r less every multiple of the modulus, largest first, that fits
Reduce[r \in BigInts, multiples \in Seq(BigInts), k \in Nat] ==
    IF k > Len(multiples) THEN r
    ELSE IF BigGE[r, multiples[k]]
         THEN Reduce[BigSub[r, multiples[k]], multiples, k + 1]
         ELSE Reduce[r, multiples, k + 1]

ModLoop[a \in BigInts, i \in Nat, r \in BigInts, multiples \in Seq(BigInts)] ==
    IF i > Len(a) THEN r
    ELSE ModLoop[a, i + 1, Reduce[StripZeros(Append(r, a[i])), multiples, 1], multiples]

\* a % n, for n > 0 (long division, one digit of a at a time)
BigMod[a \in BigInts, n \in BigInts] ==
    ModLoop[a, 1, << >>,
            << BigMulSmall[n, 128], BigMulSmall[n, 64], BigMulSmall[n, 32],
               BigMulSmall[n, 16], BigMulSmall[n, 8], BigMulSmall[n, 4],
               BigMulSmall[n, 2], n >>]

Shr1Loop[a \in BigInts, i \in Nat, carry \in Nat, acc \in BigInts] ==
    IF i > Len(a) THEN StripZeros(acc)
    ELSE Shr1Loop[a, i + 1, (carry * 256 + a[i]) % 2,
                  Append(acc, (carry * 256 + a[i]) \div 2)]

\* a >> 1n
BigShr1[a \in BigInts] == Shr1Loop[a, 1, 0, << >>]

\* a % 2n === 1n
BigIsOdd(a) == a # << >> /\ a[Len(a)] % 2 = 1

(***************************************************************************)
(* Active Authentication: generateDG15, extractModulusFromDG15,            *)
(* generateAASignature, authenticate, updateAASignature                    *)
(***************************************************************************)
\* The while loop of modPow.
ModPowLoop[result \in BigInts, base \in BigInts, exp \in BigInts, modulus \in BigInts] ==
    IF exp = << >> THEN result
    ELSE ModPowLoop[IF BigIsOdd(exp) THEN BigMod[BigMul[result, base], modulus]
                    ELSE result,
                    BigMod[BigMul[base, base], modulus], BigShr1[exp], modulus]

modPow(base, exp, modulus) == ModPowLoop[<<1>>, BigMod[base, modulus], exp, modulus]

bufferToBigInt(buf) == StripZeros(buf)

\* Hex digits of a byte string, and the bytes Buffer.from(hex, 'hex') decodes
\* from a hex string (a trailing unpaired digit is dropped).
HexDigits(bytes) ==
    [i \in 1..(2 * Len(bytes)) |->
        IF i % 2 = 1 THEN bytes[(i + 1) \div 2] \div 16 ELSE bytes[i \div 2] % 16]

HexDecode(hex) == [i \in 1..(Len(hex) \div 2) |-> 16 * hex[2 * i - 1] + hex[2 * i]]

\* value.toString(16).padStart(length * 2, '0') decoded as hex
bigIntToBuffer[value \in BigInts, length \in Nat] ==
    LET hex == IF value = << >> THEN <<0>> ELSE StripZeros(HexDigits(value))
    IN HexDecode(PadLeft(hex, 2 * length))

\* Width in bytes of the modelled SHA-256 and SHA-1 digests.
HashLenSha256 == 2
HashLenSha1 == 1

DigestLoop[data \in BigInts, i \in Nat, h \in Nat, width \in Nat] ==
    IF i > Len(data) THEN h
    ELSE DigestLoop[data, i + 1, (h * 31 + data[i] + i) % width, width]

Pow256[k \in Nat] == IF k = 0 THEN 1 ELSE 256 * Pow256[k - 1]

\* crypto.createHash(alg).update(data).digest(): a fixed deterministic
\* function of the data, hashLen bytes wide.
createHash(hashLen, data) ==
    LET h == DigestLoop[data, 1, 7 + hashLen, Pow256[hashLen]]
    IN [i \in 1..hashLen |-> (h \div Pow256[hashLen - i]) % 256]

\* buf with src copied in at offset at (Buffer.copy, buf[at] = b); bytes that
\* would fall outside buf are dropped.
BufferWrite(buf, src, at) ==
    [i \in 1..Len(buf) |-> IF i > at /\ i <= at + Len(src) THEN src[i - at] ELSE buf[i]]

publicExponent == << 1, 0, 1 >>

\* Content octets of a DER INTEGER holding n (forge's asn1 value): a 0x00
\* sign octet precedes a leading byte with the high bit set.
DerIntegerContent(n) == IF n # << >> /\ n[1] >= 128 THEN <<0>> \o n ELSE n

\* Two-byte big-endian length used by the hand-written 0x82 headers.
Len2(buf) == << (Len(buf) \div 256) % 256, Len(buf) % 256 >>

\* generateDG15 with a BIT STRING length that leaves out the unused-bits octet.
generateDG15_UnusedBitsNotCounted(modulus) ==
    LET rsaOid == << 6, 9, 42, 134, 72, 134, 247, 13, 1, 1, 1 >>
        exponentBuf == publicExponent
        modulusBuf == DerIntegerContent(modulus)
        exponentEncoded == << 2, Len(exponentBuf) >> \o exponentBuf
        modulusEncoded == << 2, 130 >> \o Len2(modulusBuf) \o modulusBuf
        rsaKeySeq == modulusEncoded \o exponentEncoded
        rsaKeySeqEncoded == << 48, 130 >> \o Len2(rsaKeySeq) \o rsaKeySeq
        bitStringContent2 == <<0>> \o rsaKeySeqEncoded
        bitStringEncoded == << 3, 130 >> \o Len2(rsaKeySeqEncoded) \o bitStringContent2
        algIdContent == rsaOid \o << 5, 0 >>
        algIdSeq == << 48, Len(algIdContent) >> \o algIdContent
        spkiContent == algIdSeq \o bitStringEncoded
        spkiSeq == << 48, 130 >> \o Len2(spkiContent) \o spkiContent
    IN << 111, 130 >> \o Len2(spkiSeq) \o spkiSeq

generateDG15(modulus) ==
    LET rsaOid == << 6, 9, 42, 134, 72, 134, 247, 13, 1, 1, 1 >>
        exponentBuf == publicExponent
        modulusBuf == DerIntegerContent(modulus)
        exponentEncoded == << 2, Len(exponentBuf) >> \o exponentBuf
        modulusEncoded == << 2, 130 >> \o Len2(modulusBuf) \o modulusBuf
        rsaKeySeq == modulusEncoded \o exponentEncoded
        rsaKeySeqEncoded == << 48, 130 >> \o Len2(rsaKeySeq) \o rsaKeySeq
        bitStringContent2 == <<0>> \o rsaKeySeqEncoded
        bitStringEncoded == << 3, 130 >> \o Len2(bitStringContent2) \o bitStringContent2
        algIdContent == rsaOid \o << 5, 0 >>
        algIdSeq == << 48, Len(algIdContent) >> \o algIdContent
        spkiContent == algIdSeq \o bitStringEncoded
        spkiSeq == << 48, 130 >> \o Len2(spkiContent) \o spkiContent
    IN << 111, 130 >> \o Len2(spkiSeq) \o spkiSeq

\* One DER element at 0-based offset off, as crypto.createPublicKey reads it:
\* the header and the declared content must lie inside buf.
DerElement(buf, off) ==
    LET first == buf[off + 2]
        k == IF first >= 128 THEN first - 128 ELSE 0
        headerOk == off + 2 <= Len(buf) /\ off + 2 + k <= Len(buf) /\ k <= 2 /\ first # 128
        length == IF first < 128 THEN first
                  ELSE IF k = 1 THEN buf[off + 3]
                  ELSE 256 * buf[off + 3] + buf[off + 4]
        start == off + 2 + k
    IN IF headerOk /\ start + length <= Len(buf)
       THEN [ok |-> TRUE, tag |-> buf[off + 1], start |-> start, end |-> start + length]
       ELSE [ok |-> FALSE]

\* crypto.createPublicKey({key: spki, format: 'der', type: 'spki'}) followed by
\* export({format: 'jwk'}).n: the modulus without leading zeros, or an
\* exception when spki is not a SubjectPublicKeyInfo holding an RSA key.
createPublicKeyModulus(spki) ==
    LET outer == DerElement(spki, 0)
        alg == DerElement(spki, outer.start)
        bits == DerElement(spki, alg.end)
        inner == DerElement(spki, bits.start + 1)
        mod == DerElement(spki, inner.start)
        exp == DerElement(spki, mod.end)
    IN IF /\ outer.ok /\ outer.tag = 48 /\ outer.end = Len(spki)
          /\ alg.ok /\ alg.tag = 48
          /\ bits.ok /\ bits.tag = 3 /\ bits.end = outer.end
          /\ bits.end > bits.start /\ spki[bits.start + 1] = 0
          /\ inner.ok /\ inner.tag = 48 /\ inner.end = bits.end
          /\ mod.ok /\ mod.tag = 2
          /\ exp.ok /\ exp.tag = 2 /\ exp.end = inner.end
          /\ StripZeros(SubSeq(spki, mod.start + 1, mod.end)) # << >>
       THEN [kind |-> "return",
             value |-> StripZeros(SubSeq(spki, mod.start + 1, mod.end))]
       ELSE [kind |-> "throw", error |-> "ERR_OSSL_ASN1"]

extractModulusFromDG15(dg15Buffer) ==
    LET offset == IF Len(dg15Buffer) > 0 /\ dg15Buffer[1] = 111
                  THEN IF Len(dg15Buffer) > 1 /\ dg15Buffer[2] >= 128
                       THEN 2 + (dg15Buffer[2] - 128)
                       ELSE 2
                  ELSE 0
    IN createPublicKeyModulus(BufferSlice(dg15Buffer, offset, Len(dg15Buffer)))

HeaderByte == 1
SuffixLen == 2
Trailer == << 52, 204 >>

\* AAMessage with the header byte 0xFF instead of 0x01.
AAMessage_HighHeader(RSA_SIZE, prepared, digest) ==
    BufferWrite(
        BufferWrite(
            BufferWrite(BufferWrite(Zeros(RSA_SIZE), <<255>>, 0), prepared, 1),
            digest, 1 + Len(prepared)),
        Trailer, RSA_SIZE - 2)

\* The block generateAASignature exponentiates.
AAMessage(RSA_SIZE, prepared, digest) ==
    BufferWrite(
        BufferWrite(
            BufferWrite(BufferWrite(Zeros(RSA_SIZE), <<HeaderByte>>, 0), prepared, 1),
            digest, 1 + Len(prepared)),
        Trailer, RSA_SIZE - 2)

\* PreparedLen that leaves one byte between the digest and the trailer.
PreparedLen_OneShort(RSA_SIZE) == (RSA_SIZE - SuffixLen) - HashLenSha256 - 2

\* Length of the random prepared bytes for a modulus of RSA_SIZE bytes.
PreparedLen(RSA_SIZE) == (RSA_SIZE - SuffixLen) - HashLenSha256 - 1

\* generateAASignature once the modulus is known; prepared stands for
\* crypto.randomBytes(preparedLen) and d for the exponent of the private key.
\* The signature is returned as a hex string.
SignMessage[challengeBuffer \in BigInts, modulusBytes \in BigInts, d \in BigInts, prepared \in BigInts] ==
    LET RSA_SIZE == Len(modulusBytes)
        digest == createHash(HashLenSha256, prepared \o challengeBuffer)
        message == AAMessage(RSA_SIZE, prepared, digest)
    IN [kind |-> "return", message |-> message,
        value |-> HexDigits(bigIntToBuffer[modPow(bufferToBigInt(message),
                                                  bufferToBigInt(d),
                                                  bufferToBigInt(modulusBytes)),
                                           RSA_SIZE])]

generateAASignature(challengeBuffer, dg15Data, d, prepared) ==
    LET extracted == extractModulusFromDG15(dg15Data)
    IN IF extracted.kind = "throw" THEN extracted
       ELSE SignMessage[challengeBuffer, extracted.value, d, prepared]

\* The checks authenticate makes on the deciphered block.
CheckDecipher[decipher \in BigInts, challenge \in BigInts, hashLen \in Nat] ==
    LET decipherNoSuffix == BufferSlice(decipher, 0, Len(decipher) - SuffixLen)
        preparedLen == Len(decipherNoSuffix) - hashLen - 1
        prepared == BufferSlice(decipherNoSuffix, 1, 1 + preparedLen)
        digest == BufferSlice(decipherNoSuffix, Len(decipherNoSuffix) - hashLen,
                              Len(decipherNoSuffix))
    IN digest = createHash(hashLen, prepared \o challenge)

\* authenticate that also compares the header byte with 0x01 and the last
\* two bytes with the trailer.
authenticate_ChecksFraming(challenge, signature, publicKeyDER, isSha1) ==
    LET extracted == extractModulusFromDG15(publicKeyDER)
    IN IF Len(signature) = 0 \/ Len(publicKeyDER) = 0
       THEN [kind |-> "return", value |-> FALSE]
       ELSE IF extracted.kind = "throw" THEN extracted
       ELSE \* the deciphered block
            LET decipher == bigIntToBuffer[modPow(bufferToBigInt(signature), publicExponent,
                                                  bufferToBigInt(extracted.value)),
                                           Len(extracted.value)]
            IN [kind |-> "return",
                value |-> /\ decipher[1] = HeaderByte
                          /\ BufferSlice(decipher, Len(decipher) - SuffixLen, Len(decipher)) = Trailer
                          /\ CheckDecipher[decipher, challenge,
                                           IF isSha1 THEN HashLenSha1 ELSE HashLenSha256]]

authenticate(challenge, signature, publicKeyDER, isSha1) ==
    LET extracted == extractModulusFromDG15(publicKeyDER)
    IN IF Len(signature) = 0 \/ Len(publicKeyDER) = 0
       THEN [kind |-> "return", value |-> FALSE]
       ELSE IF extracted.kind = "throw" THEN extracted
       ELSE [kind |-> "return",
             value |-> CheckDecipher[
                 bigIntToBuffer[modPow(bufferToBigInt(signature), publicExponent,
                                       bufferToBigInt(extracted.value)),
                                Len(extracted.value)],
                 challenge,
                 IF isSha1 THEN HashLenSha1 ELSE HashLenSha256]]

\* Key pairs crypto.generateKeyPairSync can return: modulus n with the top
\* bit set, private exponent d with 65537 * d = 1 mod (p-1)(q-1).
AAKeys ==
    { [n |-> << 154, 228, 169, 149, 98, 143, 213 >>, d |-> << 84, 27, 9, 180, 196, 126, 1 >>],
      [n |-> << 142, 88, 222, 169, 100, 184, 123 >>, d |-> << 4, 178, 37, 213, 122, 192, 225 >>] }

\* The last 8 bytes of identityKey.
Challenges ==
    { << 0, 0, 0, 0, 0, 0, 0, 1 >>, << 222, 173, 190, 239, 1, 2, 3, 4 >> }

\* Values crypto.randomBytes(len) is drawn from.
RandomBytes(len) ==
    { [i \in 1..len |-> 0], [i \in 1..len |-> 255],
      [i \in 1..len |-> (91 * i + 164) % 256] }

\* sodData.data.signature, the placeholder put into a new passport.
PlaceholderSignature == << 83, 79, 68, 0, 1, 2, 3 >>

\* Bound on the number of passport files written.
MaxFiles == 2

\* generateBiometricPassportData: the document returned to the caller.
generateBiometricPassportData(key) ==
    [dg1 |-> "dg1", dg15 |-> generateDG15(key.n), sod |-> "sod",
     signature |-> PlaceholderSignature, aaPrivateKey |-> key.d]

AAIdle ==
    /\ files = << >>
    /\ run = None
    /\ auth = None

\* npm start generate-passport: the returned document is stringified and
\* written as it is.
GeneratePassport ==
    /\ auth = None
    /\ Len(files) < MaxFiles
    /\ \E key \in AAKeys :
         files' = Append(files, generateBiometricPassportData(key))
    /\ run' = [kind |-> "generate-passport", exitCode |-> 0]
    /\ UNCHANGED <<auth, hpVars, mrzVars, derVars, certVars, sodVars, tmpVars, circuitVars>>

\* update-aa-sig that saves the passport whatever authenticate returned.
UpdateAASignature_SavesUnverified ==
    /\ auth = None
    /\ files # << >>
    /\ Len(files) < MaxFiles
    /\ \E passport \in {files[Len(files)]} :
         IF "aaPrivateKey" \notin DOMAIN passport
         THEN /\ run' = [kind |-> "update-aa-sig", exitCode |-> 1, signed |-> FALSE]
              /\ UNCHANGED files
         ELSE \E challenge \in Challenges :
              \E prepared \in RandomBytes(
                     PreparedLen(Len(extractModulusFromDG15(passport.dg15).value))) :
              \E newSignature \in {HexDecode(
                      generateAASignature(challenge, passport.dg15,
                                          passport.aaPrivateKey, prepared).value)} :
              \E isValid \in {authenticate(challenge, newSignature,
                                           passport.dg15, FALSE)} :
                /\ run' = [kind |-> "update-aa-sig", signed |-> TRUE,
                           challenge |-> challenge, prepared |-> prepared,
                           dg15 |-> passport.dg15,
                           signature |-> newSignature,
                           isValid |-> isValid.value,
                           exitCode |-> IF isValid.value THEN 0 ELSE 1]
                /\ files' = Append(files, [passport EXCEPT !.signature = newSignature])
    /\ UNCHANGED <<auth, hpVars, mrzVars, derVars, certVars, sodVars, tmpVars, circuitVars>>

\* A passport file that is in data/out_passport before the commands run:
\* written by the older generator, without aaPrivateKey, or carrying an
\* aaPrivateKey that is not the key of its DG15.
ForeignPassportFile ==
    /\ auth = None
    /\ files = << >>
    /\ run = None
    /\ \E key \in AAKeys, other \in AAKeys :
         files' = <<IF other = key
                    THEN [dg1 |-> "dg1", dg15 |-> generateDG15(key.n), sod |-> "sod",
                          signature |-> PlaceholderSignature]
                    ELSE [generateBiometricPassportData(key) EXCEPT !.aaPrivateKey = other.d]>>
    /\ UNCHANGED <<run, auth, hpVars, mrzVars, derVars, certVars, sodVars, tmpVars, circuitVars>>

\* npm start update-aa-sig on the latest passport file.
UpdateAASignature ==
    /\ auth = None
    /\ files # << >>
    /\ Len(files) < MaxFiles
    /\ \E passport \in {files[Len(files)]} :
         IF "aaPrivateKey" \notin DOMAIN passport
         THEN /\ run' = [kind |-> "update-aa-sig", exitCode |-> 1, signed |-> FALSE]
              /\ UNCHANGED files
         ELSE \E challenge \in Challenges :
              \E prepared \in RandomBytes(
                     PreparedLen(Len(extractModulusFromDG15(passport.dg15).value))) :
              \E newSignature \in {HexDecode(
                      generateAASignature(challenge, passport.dg15,
                                          passport.aaPrivateKey, prepared).value)} :
              \E isValid \in {authenticate(challenge, newSignature,
                                           passport.dg15, FALSE)} :
                /\ run' = [kind |-> "update-aa-sig", signed |-> TRUE,
                           challenge |-> challenge, prepared |-> prepared,
                           dg15 |-> passport.dg15,
                           signature |-> newSignature,
                           isValid |-> isValid.value,
                           exitCode |-> IF isValid.value THEN 0 ELSE 1]
                /\ files' = IF isValid.value
                            THEN Append(files,
                                        [passport EXCEPT !.signature = newSignature])
                            ELSE files
    /\ UNCHANGED <<auth, hpVars, mrzVars, derVars, certVars, sodVars, tmpVars, circuitVars>>

\* buf with its i-th byte changed.
Tamper(buf, i) == [buf EXCEPT ![i] = (@ + 1) % 256]

\* Public-key inputs a verifier may hand to authenticate for a passport.
KeyInputs(passport) ==
    { passport.dg15, << >>, << 111, 0 >>, << 48, 3, 1, 2, 3 >>,
      SubSeq(passport.dg15, 1, Len(passport.dg15) - 1) }

\* Signature inputs a verifier may hand to authenticate for a passport.
SignatureInputs(passport) ==
    { passport.signature, << >>, Tamper(passport.signature, 1),
      Tamper(passport.signature, Len(passport.signature)) }

\* A verifier checks a response against the latest passport.
Authenticate ==
    /\ auth = None
    /\ files # << >>
    /\ \E passport \in {files[Len(files)]} :
       \E challenge \in Challenges, signature \in SignatureInputs(passport),
          publicKeyDER \in KeyInputs(passport), isSha1 \in BOOLEAN :
         auth' = [challenge |-> challenge, signature |-> signature,
                  publicKeyDER |-> publicKeyDER, isSha1 |-> isSha1,
                  outcome |-> authenticate(challenge, signature, publicKeyDER, isSha1)]
    /\ UNCHANGED <<files, run, hpVars, mrzVars, derVars, certVars, sodVars, tmpVars, circuitVars>>

(***************************************************************************)
(* DER length codec: parseDERLength and the length writers of generateDG15  *)
(***************************************************************************)
\* JavaScript's undefined, the value of buffer[i] beyond the end of a
\* Buffer.  The NaN that arithmetic on undefined gives is held as the same
\* value: the parsers only index with it (undefined again), compare it with
\* a tag (unequal) or use it in a bitwise operation (0).
undefined == 0 - 2000000000

ByteAt(buffer, offset) ==
    IF offset /= undefined /\ offset >= 0 /\ offset < Len(buffer)
    THEN buffer[offset + 1]
    ELSE undefined

JsAdd(a, b) == IF a = undefined \/ b = undefined THEN undefined ELSE a + b

\* ToInt32 of a JavaScript number, as the bitwise operators apply it.
ToInt32(x) == IF x = undefined THEN 0 ELSE x

\* (length << 8) | byte on 32-bit signed integers.
ShiftOr8(length, byte) ==
    LET low24 == ToInt32(length) % 16777216
        rest == low24 % 8388608
        low32 == rest * 256 + ToInt32(byte)
    IN  IF low24 >= 8388608 THEN (low32 - 2147483647) - 1 ELSE low32

\* part_004: the copy used by the certificate parsers.
ParseLengthLoop[buffer \in BigInts, offset \in Int, numLengthBytes \in Nat, bytesRead \in Nat, length \in Int] ==
    IF bytesRead - 1 >= numLengthBytes
    THEN [length |-> length, bytesRead |-> bytesRead]
    ELSE ParseLengthLoop[buffer, offset, numLengthBytes, bytesRead + 1,
                         ShiftOr8(length, ByteAt(buffer, offset + bytesRead))]

parseDERLength(buffer, offset) ==
    LET length == ByteAt(buffer, offset)
    IN  IF ToInt32(length) % 256 >= 128
        THEN ParseLengthLoop[buffer, offset, length % 128, 1, 0]
        ELSE [length |-> length, bytesRead |-> 1]

\* src/utils/sod.ts: the copy used by extractCertificateFromSOD.
ParseLengthLoop_sod[buffer \in BigInts, offset \in Int, numLengthBytes \in Nat, bytesRead \in Nat, length \in Int] ==
    IF bytesRead - 1 >= numLengthBytes
    THEN [length |-> length, bytesRead |-> bytesRead]
    ELSE ParseLengthLoop_sod[buffer, offset, numLengthBytes, bytesRead + 1,
                             ShiftOr8(length, ByteAt(buffer, offset + bytesRead))]

parseDERLength_sod(buffer, offset) ==
    LET length == ByteAt(buffer, offset)
    IN  IF ToInt32(length) % 256 >= 128
        THEN ParseLengthLoop_sod[buffer, offset, length % 128, 1, 0]
        ELSE [length |-> length, bytesRead |-> 1]

\* part_012: the copy next to the one-certificate unwrapper.
ParseLengthLoop_part012[buffer \in BigInts, offset \in Int, numLengthBytes \in Nat, bytesRead \in Nat, length \in Int] ==
    IF bytesRead - 1 >= numLengthBytes
    THEN [length |-> length, bytesRead |-> bytesRead]
    ELSE ParseLengthLoop_part012[buffer, offset, numLengthBytes, bytesRead + 1,
                                 ShiftOr8(length, ByteAt(buffer, offset + bytesRead))]

parseDERLength_part012(buffer, offset) ==
    LET length == ByteAt(buffer, offset)
    IN  IF ToInt32(length) % 256 >= 128
        THEN ParseLengthLoop_part012[buffer, offset, length % 128, 1, 0]
        ELSE [length |-> length, bytesRead |-> 1]

\* The two length writers of the code, both in generateDG15: one octet
\* holding the length (`[0x02, exponentBuf.length]`, `[0x30, algIdContent.length]`)
\* and the fixed three-octet form `0x82, (len >> 8) & 0xff, len & 0xff`.
lengthOctet(len) == <<len % 256>>

lengthOctets82(len) == <<130, (len \div 256) % 256, len % 256>>

\* Inputs of the length readers: a length field, the octets after it, and
\* zero to MaxLead octets before it.
MaxLead == 1

FirstOctets == {0, 1, 5, 127, 128, 129, 130, 131, 132, 133}

NextOctets ==
    { <<>>, <<5>>, <<128>>, <<255>>, <<0, 5>>, <<1, 0>>, <<255, 255>>,
      <<1, 0, 0>>, <<255, 255, 255>>, <<1, 0, 0, 0>>, <<127, 255, 255, 255>>,
      <<128, 0, 0, 0>>, <<255, 255, 255, 255>>, <<1, 0, 0, 0, 0>> }

DerIdle ==
    /\ derInput = None
    /\ derResult = None

\* One call of each copy on the same buffer and offset.
DerRead ==
    \E first \in FirstOctets, next \in NextOctets, offset \in 0..MaxLead :
        /\ derInput' = [buffer |-> Zeros(offset) \o <<first>> \o next, offset |-> offset]
        /\ derResult' = [kind |-> "read",
                         cert |-> parseDERLength(derInput'.buffer, offset),
                         sod |-> parseDERLength_sod(derInput'.buffer, offset),
                         part012 |-> parseDERLength_part012(derInput'.buffer, offset)]
        /\ UNCHANGED <<hpVars, mrzVars, aaVars, certVars, sodVars, tmpVars, circuitVars>>

\* The length just read is written back by each writer of the code.
DerWrite ==
    /\ derResult.kind = "read"
    /\ derResult.cert.length /= undefined
    /\ derResult' = [derResult EXCEPT !.kind = "written"] @@
                    [octet |-> lengthOctet(derResult.cert.length),
                     octets82 |-> lengthOctets82(derResult.cert.length)]
    /\ UNCHANGED <<derInput, hpVars, mrzVars, aaVars, certVars, sodVars, tmpVars, circuitVars>>

(***************************************************************************)
(* Certificates as the key tooling writes them (DER), read by              *)
(* crypto.X509Certificate(pem).raw                                         *)
(***************************************************************************)
\* The octets of a natural number, big-endian, without leading zeros.
NatBytes[n \in Nat] ==
    IF n = 0 THEN <<>> ELSE Append(NatBytes[n \div 256], n % 256)

\* DER length octets: short form below 128, minimal long form otherwise.
DerLength[n \in Nat] ==
    IF n < 128 THEN <<n>> ELSE <<128 + Len(NatBytes[n])>> \o NatBytes[n]

\* A DER element: tag, length, content.
DerTLV[tag \in 0..255, content \in BigInts] ==
    <<tag>> \o DerLength[Len(content)] \o content

\* Content of a DER INTEGER holding a non-negative number given by its
\* octets: a 0x00 sign octet goes in front when the top bit is set.
DerIntegerOf[n \in BigInts] ==
    IF n = <<>> THEN DerTLV[2, <<0>>]
    ELSE IF n[1] >= 128 THEN DerTLV[2, <<0>> \o n]
    ELSE DerTLV[2, n]

DerNull == <<5, 0>>

sha256WithRSAEncryptionOid == <<42, 134, 72, 134, 247, 13, 1, 1, 11>>
rsaPssOid == <<42, 134, 72, 134, 247, 13, 1, 1, 10>>
rsaEncryptionOid == <<42, 134, 72, 134, 247, 13, 1, 1, 1>>
mgf1Oid == <<42, 134, 72, 134, 247, 13, 1, 1, 8>>
sha256Oid == <<96, 134, 72, 1, 101, 3, 4, 2, 1>>

Filler(len) == [i \in 1..len |-> 65 + (i % 26)]

\* AlgorithmIdentifier { sha256, NULL }
Sha256AlgId == DerTLV[48, DerTLV[6, sha256Oid] \o DerNull]

\* RSASSA-PSS-params: [0] hashAlgorithm, [1] maskGenAlgorithm, [2] saltLength,
\* [3] trailerField, each optional.  mgf "long" carries a parameter of more
\* than 127 octets, so that the element before [2] has a long-form length.
NoSalt == 0 - 1

PssElements(p) ==
    (IF p.hash THEN DerTLV[160, Sha256AlgId] ELSE <<>>)
    \o (IF p.mgf = "mgf1" THEN DerTLV[161, DerTLV[48, DerTLV[6, mgf1Oid] \o Sha256AlgId]]
        ELSE IF p.mgf = "long" THEN DerTLV[161, DerTLV[48, DerTLV[6, mgf1Oid] \o DerTLV[4, Filler(130)]]]
        ELSE <<>>)
    \o (IF p.salt /= NoSalt THEN DerTLV[162, DerIntegerOf[NatBytes[p.salt]]] ELSE <<>>)
    \o (IF p.trailer THEN DerTLV[163, DerTLV[2, <<1>>]] ELSE <<>>)

\* signatureAlgorithm AlgorithmIdentifier of a certificate.
SigAlgDER(alg) ==
    IF alg.kind = "RSA" THEN DerTLV[48, DerTLV[6, sha256WithRSAEncryptionOid] \o DerNull]
    ELSE IF alg.kind = "PSS-no-params" THEN DerTLV[48, DerTLV[6, rsaPssOid]]
    ELSE DerTLV[48, DerTLV[6, rsaPssOid] \o DerTLV[48, PssElements(alg)]]

\* Name with one commonName attribute of the given length.
NameDER(len) ==
    DerTLV[48, DerTLV[49, DerTLV[48, DerTLV[6, <<85, 4, 3>>] \o DerTLV[12, Filler(len)]]]]

\* Validity { UTCTime, UTCTime }
ValidityDER ==
    DerTLV[48, DerTLV[23, <<50, 52, 48, 49, 48, 49, 48, 48, 48, 48, 48, 48, 90>>]
               \o DerTLV[23, <<51, 52, 48, 49, 48, 49, 48, 48, 48, 48, 48, 48, 90>>]]

\* SubjectPublicKeyInfo { { rsaEncryption, NULL }, BIT STRING { modulus, exponent } }
SpkiDER(modulus) ==
    DerTLV[48, DerTLV[48, DerTLV[6, rsaEncryptionOid] \o DerNull]
               \o DerTLV[3, <<0>> \o DerTLV[48, DerIntegerOf[modulus] \o DerIntegerOf[publicExponent]]]]

\* TBSCertificate: the [0] version is present in a v3 certificate and absent
\* in a v1 certificate.
TbsDER(c) ==
    DerTLV[48, (IF c.version THEN DerTLV[160, DerTLV[2, <<2>>]] ELSE <<>>)
               \o DerIntegerOf[c.serial]
               \o SigAlgDER(c.sigAlg)
               \o NameDER(c.nameLen)
               \o ValidityDER
               \o NameDER(c.nameLen)
               \o SpkiDER(c.modulus)]

\* Certificate { tbsCertificate, signatureAlgorithm, signatureValue }
CertificateDER(c) ==
    DerTLV[48, TbsDER(c) \o SigAlgDER(c.sigAlg) \o DerTLV[3, <<0>> \o Filler(Len(c.modulus))]]

(***************************************************************************)
(* Certificate parsers: part_004 and part_002                              *)
(***************************************************************************)
Throw(message) == [kind |-> "throw", error |-> message]

Return(v) == [kind |-> "return", value |-> v]

\* buffer.slice(start, end) with offsets that may be NaN (taken as 0).
SliceAt(buffer, start, end) == BufferSlice(buffer, ToInt32(start), ToInt32(end))

\* offset++; l = parseDERLength(buffer, offset); offset += l.bytesRead
AfterHeader[buffer \in BigInts, offset \in Int] ==
    JsAdd(JsAdd(offset, 1), parseDERLength(buffer, JsAdd(offset, 1)).bytesRead)

\* 1 + l.bytesRead + l.length for the element at offset
TotalLength[buffer \in BigInts, offset \in Int] ==
    JsAdd(1 + parseDERLength(buffer, JsAdd(offset, 1)).bytesRead,
          parseDERLength(buffer, JsAdd(offset, 1)).length)

\* if (buffer[offset] === tag) { offset++; l = parseDERLength(buffer, offset);
\*                               offset += l.bytesRead + l.length }
SkipIfTag[buffer \in BigInts, offset \in Int, tag \in 0..255] ==
    IF ByteAt(buffer, offset) = tag
    THEN JsAdd(offset, TotalLength[buffer, offset])
    ELSE offset

\* The certificate file is read and decoded by the platform; certDER is
\* cert.raw.
extractTBSFromCert(certDER) ==
    IF ByteAt(certDER, 0) /= 48
    THEN Throw("Invalid certificate: expected SEQUENCE tag")
    ELSE LET tbsStartOffset == AfterHeader[certDER, 0]
         IN  IF ByteAt(certDER, tbsStartOffset) /= 48
             THEN Throw("Invalid certificate: expected tbsCertificate SEQUENCE")
             ELSE Return(SliceAt(certDER, tbsStartOffset,
                                 JsAdd(tbsStartOffset, TotalLength[certDER, tbsStartOffset])))

\* The last step of extractPublicKeyFromTBS: the element at offset must be
\* the subjectPublicKeyInfo SEQUENCE; the message of the error reads
\* tbsDER[offset].toString(16), a TypeError beyond the end of the buffer.
SpkiAt[tbsDER \in BigInts, offset \in Int] ==
    IF ByteAt(tbsDER, offset) = undefined THEN Throw("TypeError")
    ELSE IF ByteAt(tbsDER, offset) /= 48
    THEN Throw("Invalid TBS: expected subjectPublicKeyInfo SEQUENCE")
    ELSE Return(SliceAt(tbsDER, offset, JsAdd(offset, TotalLength[tbsDER, offset])))

extractPublicKeyFromTBS_VersionNotSkipped(tbsDER) ==
    IF ByteAt(tbsDER, 0) /= 48
    THEN Throw("Invalid TBS: expected SEQUENCE tag")
    ELSE SpkiAt[tbsDER,
           SkipIfTag[tbsDER,
             SkipIfTag[tbsDER,
               SkipIfTag[tbsDER,
                 SkipIfTag[tbsDER,
                   SkipIfTag[tbsDER, AfterHeader[tbsDER, 0], 2],
                   48], 48], 48], 48]]

extractPublicKeyFromTBS(tbsDER) ==
    IF ByteAt(tbsDER, 0) /= 48
    THEN Throw("Invalid TBS: expected SEQUENCE tag")
    ELSE SpkiAt[tbsDER,
           SkipIfTag[tbsDER,
             SkipIfTag[tbsDER,
               SkipIfTag[tbsDER,
                 SkipIfTag[tbsDER,
                   SkipIfTag[tbsDER,
                     SkipIfTag[tbsDER, AfterHeader[tbsDER, 0], 160],
                     2], 48], 48], 48], 48]]

\* The last step of extractRSAModulus: the modulus INTEGER at offset, its
\* first content octet dropped when it is 0x00.
ModulusAt[publicKeyDER \in BigInts, offset \in Int] ==
    IF ByteAt(publicKeyDER, offset) /= 2
    THEN Throw("Invalid public key: expected modulus INTEGER")
    ELSE LET modulusLength == parseDERLength(publicKeyDER, JsAdd(offset, 1)).length
             content == AfterHeader[publicKeyDER, offset]
         IN  IF ByteAt(publicKeyDER, content) = 0
             THEN Return(SliceAt(publicKeyDER, JsAdd(content, 1),
                                 JsAdd(JsAdd(content, 1), JsAdd(modulusLength, 0 - 1))))
             ELSE Return(SliceAt(publicKeyDER, content, JsAdd(content, modulusLength)))

extractRSAModulus(publicKeyDER) ==
    IF ByteAt(publicKeyDER, 0) /= 48
    THEN Throw("Invalid public key: expected SEQUENCE")
    ELSE LET algorithm == AfterHeader[publicKeyDER, 0]
         IN  IF ByteAt(publicKeyDER, algorithm) /= 48
             THEN Throw("Invalid public key: expected algorithm SEQUENCE")
             ELSE LET bitString == SkipIfTag[publicKeyDER, algorithm, 48]
                  IN  IF ByteAt(publicKeyDER, bitString) /= 3
                      THEN Throw("Invalid public key: expected BIT STRING")
                      ELSE LET inner == JsAdd(AfterHeader[publicKeyDER, bitString], 1)
                           IN  IF ByteAt(publicKeyDER, inner) /= 48
                               THEN Throw("Invalid public key: expected inner SEQUENCE")
                               ELSE ModulusAt[publicKeyDER, AfterHeader[publicKeyDER, inner]]

\* The chain the registration workflow applies to a certificate file.
ModulusOfCertificate(certDER) ==
    LET tbs == extractTBSFromCert(certDER)
    IN  IF tbs.kind = "throw" THEN tbs
        ELSE LET spki == extractPublicKeyFromTBS(tbs.value)
             IN  IF spki.kind = "throw" THEN spki
                 ELSE extractRSAModulus(spki.value)

\* The length parsing that extractSaltLengthFromCert and
\* detectSignatureAlgorithm spell out at every element:
\*   let length = certDER[offset]; offset++;
\*   if (length & 0x80) { n = length & 0x7f; length = 0;
\*     for (i < n) { length = (length << 8) | certDER[offset]; offset++ } }
InlineLengthLoop[certDER \in BigInts, offset \in Int, numLengthBytes \in Nat, i \in Nat, length \in Int] ==
    IF i >= numLengthBytes
    THEN [length |-> length, offset |-> offset]
    ELSE InlineLengthLoop[certDER, JsAdd(offset, 1), numLengthBytes, i + 1,
                          ShiftOr8(length, ByteAt(certDER, offset))]

InlineLength[certDER \in BigInts, offset \in Int] ==
    IF ToInt32(ByteAt(certDER, offset)) % 256 >= 128
    THEN InlineLengthLoop[certDER, JsAdd(offset, 1), ByteAt(certDER, offset) % 128, 0, 0]
    ELSE [length |-> ByteAt(certDER, offset), offset |-> JsAdd(offset, 1)]

\* offset++; parse the length; offset += length
SkipInline[certDER \in BigInts, offset \in Int] ==
    JsAdd(InlineLength[certDER, JsAdd(offset, 1)].offset,
          InlineLength[certDER, JsAdd(offset, 1)].length)

\* Both functions walk to the OID of the certificate's signatureAlgorithm in
\* the same way: outer SEQUENCE header, tbsCertificate skipped whole,
\* signatureAlgorithm SEQUENCE header, OID tag.  The value is the offset of
\* the OID's length octet.
SigAlgOid(certDER) ==
    IF ByteAt(certDER, 0) /= 48
    THEN Throw("Invalid certificate: expected SEQUENCE tag")
    ELSE LET tbs == InlineLength[certDER, 1].offset
         IN  IF ByteAt(certDER, tbs) /= 48
             THEN Throw("Invalid certificate: expected tbsCertificate SEQUENCE")
             ELSE LET sigAlg == SkipInline[certDER, tbs]
                  IN  IF ByteAt(certDER, sigAlg) /= 48
                      THEN Throw("Invalid certificate: expected signatureAlgorithm SEQUENCE")
                      ELSE LET oid == InlineLength[certDER, JsAdd(sigAlg, 1)].offset
                           IN  IF ByteAt(certDER, oid) /= 6
                               THEN Throw("Invalid certificate: expected OID tag")
                               ELSE Return(JsAdd(oid, 1))

\* for (i < intLength) saltLength = (saltLength << 8) | certDER[offset + i]
SaltValueLoop[certDER \in BigInts, offset \in Int, intLength \in Int, i \in Nat, saltLength \in Int] ==
    IF intLength = undefined \/ i >= intLength
    THEN saltLength
    ELSE SaltValueLoop[certDER, offset, intLength, i + 1,
                       ShiftOr8(saltLength, ByteAt(certDER, JsAdd(offset, i)))]

\* The [2] element at offset: its header is skipped; an INTEGER inside is
\* read, anything else leaves the salt length as it was.
SaltAt[certDER \in BigInts, offset \in Int, saltLength \in Int] ==
    LET inside == InlineLength[certDER, JsAdd(offset, 1)].offset
    IN  IF ByteAt(certDER, inside) = 2
        THEN SaltValueLoop[certDER, JsAdd(inside, 2), ByteAt(certDER, JsAdd(inside, 1)), 0, 0]
        ELSE saltLength

\* while (offset < paramsEnd): the first [2] ends the scan, any other
\* element is skipped by its length.
ParamsLoop_FirstElementOnly[certDER \in BigInts, offset \in Int, paramsEnd \in Int, saltLength \in Int] ==
    IF offset = undefined \/ paramsEnd = undefined \/ offset >= paramsEnd
    THEN saltLength
    ELSE IF ByteAt(certDER, offset) = 162
    THEN SaltAt[certDER, offset, saltLength]
    ELSE saltLength

ParamsLoop[certDER \in BigInts, offset \in Int, paramsEnd \in Int, saltLength \in Int] ==
    IF offset = undefined \/ paramsEnd = undefined \/ offset >= paramsEnd
    THEN saltLength
    ELSE IF ByteAt(certDER, offset) = 162
    THEN SaltAt[certDER, offset, saltLength]
    ELSE ParamsLoop[certDER, SkipInline[certDER, offset], paramsEnd, saltLength]

DefaultSaltLength == 32

\* The scan of the parameters that follow the OID.
ScanParams_FirstElementOnly(certDER, params) ==
    IF ByteAt(certDER, params) = 48
    THEN ParamsLoop_FirstElementOnly[certDER,
                    InlineLength[certDER, JsAdd(params, 1)].offset,
                    SkipInline[certDER, params], DefaultSaltLength]
    ELSE DefaultSaltLength

ScanParams(certDER, params) ==
    IF ByteAt(certDER, params) = 48
    THEN ParamsLoop[certDER,
                    InlineLength[certDER, JsAdd(params, 1)].offset,
                    SkipInline[certDER, params], DefaultSaltLength]
    ELSE DefaultSaltLength

extractSaltLengthFromCert(certDER) ==
    LET oid == SigAlgOid(certDER)
    IN  IF oid.kind = "throw" THEN oid
        ELSE Return(ScanParams(certDER,
                        JsAdd(JsAdd(oid.value, 1), ByteAt(certDER, oid.value))))

detectSignatureAlgorithm(certDER) ==
    LET oid == SigAlgOid(certDER)
    IN  IF oid.kind = "throw" THEN oid
        ELSE IF SliceAt(certDER, JsAdd(oid.value, 1),
                        JsAdd(JsAdd(oid.value, 1), ByteAt(certDER, oid.value))) = rsaPssOid
             THEN Return("RSA-PSS")
             ELSE Return("RSA")

\* Certificates handed to the parsers.
LongModulusLen == 128
LongFieldLen == 130
ShortNameLen == 4

LongModulus(len) == [i \in 1..len |-> IF i = 1 THEN 200 ELSE (i * 37 + 11) % 256]

Moduli ==
    { <<91, 12, 33>>, LongModulus(LongModulusLen), LongModulus(2 * LongModulusLen) }
    \cup { k.n : k \in AAKeys }

SaltLengths == {NoSalt, 20, 32, 222}

SigAlgs ==
    { [kind |-> "RSA", hash |-> FALSE, mgf |-> "none", salt |-> NoSalt, trailer |-> FALSE],
      [kind |-> "PSS-no-params", hash |-> FALSE, mgf |-> "none", salt |-> NoSalt, trailer |-> FALSE],
      [kind |-> "RSA-PSS", hash |-> TRUE, mgf |-> "mgf1", salt |-> 32, trailer |-> TRUE] }
    \cup { [kind |-> "RSA-PSS", hash |-> h, mgf |-> m, salt |-> s, trailer |-> FALSE] :
             h \in BOOLEAN, m \in {"none", "mgf1", "long"}, s \in SaltLengths }

Certificates ==
    { [version |-> v, serial |-> <<17, 35>>, sigAlg |-> a, modulus |-> n, nameLen |-> l] :
        v \in BOOLEAN, a \in SigAlgs, n \in Moduli, l \in {ShortNameLen, LongFieldLen} }

CertIdle ==
    /\ certInput = None
    /\ certResult = None

\* The certificate file is read and decoded to DER
\* (fs.readFileSync, crypto.X509Certificate(pem).raw).
CertLoad ==
    /\ certInput = None
    /\ \E c \in Certificates :
           certInput' = [cert |-> c, der |-> CertificateDER(c)]
    /\ UNCHANGED <<certResult, hpVars, mrzVars, aaVars, derVars, sodVars, tmpVars, circuitVars>>

\* register-certificate: the modulus of the certificate.
CertExtractModulus ==
    /\ certInput /= None
    /\ certResult = None
    /\ certResult' = [op |-> "modulus"] @@ ModulusOfCertificate(certInput.der)
    /\ UNCHANGED <<certInput, hpVars, mrzVars, aaVars, derVars, sodVars, tmpVars, circuitVars>>

\* extractSaltLengthFromCert applied to the certificate.
CertExtractSaltLength ==
    /\ certInput /= None
    /\ certResult = None
    /\ certResult' = [op |-> "saltLength"] @@ extractSaltLengthFromCert(certInput.der)
    /\ UNCHANGED <<certInput, hpVars, mrzVars, aaVars, derVars, sodVars, tmpVars, circuitVars>>

\* detectSignatureAlgorithm applied to the certificate.
CertDetectSignatureAlgorithm ==
    /\ certInput /= None
    /\ certResult = None
    /\ certResult' = [op |-> "detect"] @@ detectSignatureAlgorithm(certInput.der)
    /\ UNCHANGED <<certInput, hpVars, mrzVars, aaVars, derVars, sodVars, tmpVars, circuitVars>>

(***************************************************************************)
(* forge.asn1 objects and their DER serialisation                          *)
(***************************************************************************)
\* forge.asn1.create(class, type, constructed, value): a node holds its tag
\* octet and either content octets or child nodes.  A subtree that the code
\* never walks into is held as a leaf whose content is the encoding of its
\* children.
Leaf(tag, bytes) == [tag |-> tag, constructed |-> FALSE, value |-> bytes]

Cons(tag, children) == [tag |-> tag, constructed |-> TRUE, value |-> children]

Concat[ss \in Seq(BigInts)] ==
    IF Len(ss) = 0 THEN <<>> ELSE ss[1] \o Concat[Tail(ss)]

\* forge.asn1.toDer(obj).getBytes()
RECURSIVE toDer(_)
toDer(obj) ==
    IF obj.constructed
    THEN DerTLV[obj.tag, Concat[[i \in 1..Len(obj.value) |-> toDer(obj.value[i])]]]
    ELSE DerTLV[obj.tag, obj.value]

\* forge.asn1.integerToDer(x) for 0 <= x < 2^31: the shortest two's
\* complement form.
integerToDer(x) ==
    IF x < 128 THEN <<x>>
    ELSE IF x < 32768 THEN <<x \div 256, x % 256>>
    ELSE IF x < 8388608 THEN <<x \div 65536, (x \div 256) % 256, x % 256>>
    ELSE <<x \div 16777216, (x \div 65536) % 256, (x \div 256) % 256, x % 256>>

\* forge.asn1.fromDer applied to a run of elements: TRUE when every header
\* and every declared length fits, constructed elements included.
DerWellFormed[bytes \in BigInts] ==
    \/ Len(bytes) = 0
    \/ /\ Len(bytes) >= 2
       /\ DerElement(bytes, 0).ok
       /\ (((bytes[1] \div 32) % 2 = 1) =>
            DerWellFormed[SubSeq(bytes, DerElement(bytes, 0).start + 1, DerElement(bytes, 0).end)])
       /\ DerWellFormed[SubSeq(bytes, DerElement(bytes, 0).end + 1, Len(bytes))]

\* The octets forge writes for a run of elements it has parsed: each element
\* gets its tag, the DER length of its rewritten content, and the content.
Reencode[bytes \in BigInts] ==
    IF Len(bytes) = 0 THEN <<>>
    ELSE DerTLV[bytes[1],
                IF (bytes[1] \div 32) % 2 = 1
                THEN Reencode[SubSeq(bytes, DerElement(bytes, 0).start + 1, DerElement(bytes, 0).end)]
                ELSE SubSeq(bytes, DerElement(bytes, 0).start + 1, DerElement(bytes, 0).end)]
         \o Reencode[SubSeq(bytes, DerElement(bytes, 0).end + 1, Len(bytes))]

\* forge.pki.certificateFromPem(pem) and, when the message is serialised,
\* forge.pki.certificateToAsn1(cert): the certificate as one encoded subtree.
forgeCertificate(certDER) ==
    IF Len(certDER) > 0 /\ DerWellFormed[certDER] /\ DerElement(certDER, 0).end = Len(certDER)
    THEN Return(Leaf(certDER[1],
                     Reencode[SubSeq(certDER, DerElement(certDER, 0).start + 1, Len(certDER))]))
    ELSE Throw("forge: cannot read X.509 certificate")

(***************************************************************************)
(* generateSOD: part_002                                                   *)
(***************************************************************************)
\* Data-group numbers as the keys of a JavaScript object: decimal strings,
\* held as their digits.
ParseInt[s \in Seq(0..9)] ==
    IF Len(s) = 0 THEN 0 ELSE 10 * ParseInt[SubSeq(s, 1, Len(s) - 1)] + s[Len(s)]

\* The keys of dataGroups as generateBiometricPassportData passes them
\* ({1: dg1Data, 15: dg15Data}) and the dummy data groups 2 to 5.
DataGroupKeys == {<<1>>, <<1, 5>>}

DummyKeys == {<<2>>, <<3>>, <<4>>, <<5>>}

DummyData == [i \in 1..10 |-> 255]

\* crypto.createHash('sha256') of every data group, then of the dummy data
\* for "2" to "5": the object dataGroupHashBuffers.
dataGroupHashBuffers(dataGroups) ==
    [k \in DOMAIN dataGroups \cup DummyKeys |->
        IF k \in DummyKeys
        THEN createHash(HashLenSha256, DummyData)
        ELSE createHash(HashLenSha256, dataGroups[k])]

\* Object.entries(obj): integer-like keys come first, in ascending numeric
\* order, whatever the order of insertion.
ObjectKeys[keys \in SUBSET Seq(0..9)] ==
    IF keys = {} THEN <<>>
    ELSE LET first == CHOOSE k \in keys : \A j \in keys : ParseInt[k] <= ParseInt[j]
         IN  <<first>> \o ObjectKeys[keys \ {first}]

\* The order of two strings under the default comparison of sort().
StringCompare(a, b) ==
    IF a = b THEN 0
    ELSE IF \E i \in 1..Len(b) :
              /\ \A j \in 1..(i - 1) : j <= Len(a) /\ a[j] = b[j]
              /\ (i > Len(a) \/ (i - 1 <= Len(a) /\ a[i] < b[i]))
         THEN 0 - 1
         ELSE 1

dgCompare_AsStrings(a, b) == StringCompare(a, b)

\* ([a], [b]) => parseInt(a) - parseInt(b)
dgCompare(a, b) == ParseInt[a] - ParseInt[b]

\* Array.prototype.sort with that comparator (stable).
SortInsert[sorted \in Seq(Seq(0..9)), k \in Seq(0..9)] ==
    IF Len(sorted) = 0 THEN <<k>>
    ELSE IF dgCompare(k, sorted[Len(sorted)]) < 0
    THEN Append(SortInsert[SubSeq(sorted, 1, Len(sorted) - 1), k], sorted[Len(sorted)])
    ELSE Append(sorted, k)

SortKeys[entries \in Seq(Seq(0..9))] ==
    IF Len(entries) = 0 THEN <<>>
    ELSE SortInsert[SortKeys[SubSeq(entries, 1, Len(entries) - 1)], entries[Len(entries)]]

\* LDSSecurityObject { version 0, { sha256, NULL }, dataGroupHashValues }
ldsSecurityObjectAsn1(hashBuffers) ==
    Cons(48, << Leaf(2, integerToDer(0)),
                Cons(48, <<Leaf(6, sha256Oid), Leaf(5, <<>>)>>),
                Cons(48, [i \in 1..Cardinality(DOMAIN hashBuffers) |->
                            Cons(48, << Leaf(2, integerToDer(ParseInt[SortKeys[ObjectKeys[DOMAIN hashBuffers]][i]])),
                                        Leaf(4, hashBuffers[SortKeys[ObjectKeys[DOMAIN hashBuffers]][i]]) >>)]) >>)

signedDataOid == <<42, 134, 72, 134, 247, 13, 1, 7, 2>>
dataOid == <<42, 134, 72, 134, 247, 13, 1, 7, 1>>
contentTypeOid == <<42, 134, 72, 134, 247, 13, 1, 9, 3>>
messageDigestOid == <<42, 134, 72, 134, 247, 13, 1, 9, 4>>
signingTimeOid == <<42, 134, 72, 134, 247, 13, 1, 9, 5>>
ldsSecurityObjectOid == <<103, 129, 8, 1, 1, 1>>

\* The private key that belongs to a certificate, named by the modulus.
\* Signatures are fixed functions of key, scheme and message; an RSA-PSS
\* signature also depends on the salt length and on the random salt.
pkcs1Sign(key, message) == createHash(HashLenSha256, <<1>> \o key \o message)

pssSign(key, saltLength, salt, message) ==
    createHash(HashLenSha256, <<2, saltLength % 256>> \o salt \o key \o message)

\* authenticatedAttributes [0]: contentType, signingTime, messageDigest, in
\* the order given to addSigner.
authenticatedAttributes(content, now) ==
    Leaf(160, DerTLV[48, DerTLV[6, contentTypeOid] \o DerTLV[49, DerTLV[6, ldsSecurityObjectOid]]]
              \o DerTLV[48, DerTLV[6, signingTimeOid] \o DerTLV[49, DerTLV[23, now]]]
              \o DerTLV[48, DerTLV[6, messageDigestOid]
                            \o DerTLV[49, DerTLV[4, createHash(HashLenSha256, content)]]])

\* The bytes a signature covers: the attributes' DER with the [0] tag
\* replaced by the SET tag.
signedAttrsSetDer(signedAttrs) == <<49>> \o Tail(toDer(signedAttrs))

\* forge.pkcs7.createSignedData(), addCertificate, addSigner, sign, toAsn1:
\* ContentInfo { signedData, [0] { SignedData { version, digestAlgorithms,
\* contentInfo, certificates [0], signerInfos { SignerInfo { version,
\* issuerAndSerialNumber, digestAlgorithm, authenticatedAttributes [0],
\* digestEncryptionAlgorithm, encryptedDigest } } } } }
createSignedData(content, embeddedCert, signer, now) ==
    Cons(48, << Leaf(6, signedDataOid),
                Cons(160, << Cons(48, <<
                    Leaf(2, <<1>>),
                    Leaf(49, DerTLV[48, DerTLV[6, sha256Oid] \o DerNull]),
                    Leaf(48, DerTLV[6, dataOid] \o DerTLV[160, DerTLV[4, content]]),
                    Cons(160, <<embeddedCert>>),
                    Cons(49, << Cons(48, <<
                        Leaf(2, <<1>>),
                        Leaf(48, NameDER(signer.nameLen) \o DerIntegerOf[signer.serial]),
                        Leaf(48, DerTLV[6, sha256Oid] \o DerNull),
                        authenticatedAttributes(content, now),
                        Cons(48, <<Leaf(6, rsaEncryptionOid), Leaf(5, <<>>)>>),
                        Leaf(4, pkcs1Sign(signer.modulus,
                                          signedAttrsSetDer(authenticatedAttributes(content, now))))
                    >>) >>)
                >>) >>) >>)

\* RSASSA-PSS-params { [0] sha256, [1] mgf1 with sha256, [2] saltLength }
rsaPssParams_Salt32(saltLength) ==
    Cons(48, << Cons(160, <<Cons(48, <<Leaf(6, sha256Oid), Leaf(5, <<>>)>>)>>),
                Cons(161, <<Cons(48, <<Leaf(6, mgf1Oid),
                                       Cons(48, <<Leaf(6, sha256Oid), Leaf(5, <<>>)>>)>>)>>),
                Cons(162, <<Leaf(2, integerToDer(32))>>) >>)

rsaPssParams(saltLength) ==
    Cons(48, << Cons(160, <<Cons(48, <<Leaf(6, sha256Oid), Leaf(5, <<>>)>>)>>),
                Cons(161, <<Cons(48, <<Leaf(6, mgf1Oid),
                                       Cons(48, <<Leaf(6, sha256Oid), Leaf(5, <<>>)>>)>>)>>),
                Cons(162, <<Leaf(2, integerToDer(saltLength))>>) >>)

\* The nodes the code reaches by index; the indexes of the source count
\* from 0, those of a TLA+ sequence from 1.
SignedDataOf(p7Asn1) == p7Asn1.value[2].value[1]
SignerInfoOf(p7Asn1) == SignedDataOf(p7Asn1).value[5].value[1]

\* Step 2 and 3 of the RSA-PSS branch: digestEncryptionAlg.value[0] and
\* value[1] are replaced, then signerInfo.value[5].
patchRsaPss_AlsoDigestAlgorithm(p7Asn1, saltLength, signature) ==
    [p7Asn1 EXCEPT
        !.value[2].value[1].value[5].value[1].value[3] = Leaf(48, DerTLV[6, rsaPssOid]),
        !.value[2].value[1].value[5].value[1].value[5].value[1] = Leaf(6, rsaPssOid),
        !.value[2].value[1].value[5].value[1].value[5].value[2] = rsaPssParams(saltLength),
        !.value[2].value[1].value[5].value[1].value[6] = Leaf(4, signature)]

patchRsaPss(p7Asn1, saltLength, signature) ==
    [p7Asn1 EXCEPT
        !.value[2].value[1].value[5].value[1].value[5].value[1] = Leaf(6, rsaPssOid),
        !.value[2].value[1].value[5].value[1].value[5].value[2] = rsaPssParams(saltLength),
        !.value[2].value[1].value[5].value[1].value[6] = Leaf(4, signature)]

(***************************************************************************)
(* extractCertificateFromSOD: src/utils/sod.ts                             *)
(***************************************************************************)
\* offset++; l = parseDERLength(sodData, offset); offset += l.bytesRead
sodAfterHeader[sodData \in BigInts, offset \in Int] ==
    JsAdd(JsAdd(offset, 1), parseDERLength_sod(sodData, JsAdd(offset, 1)).bytesRead)

\* 1 + l.bytesRead + l.length for the element at offset
sodTotalLength[sodData \in BigInts, offset \in Int] ==
    JsAdd(1 + parseDERLength_sod(sodData, JsAdd(offset, 1)).bytesRead,
          parseDERLength_sod(sodData, JsAdd(offset, 1)).length)

sodSkipIfTag[sodData \in BigInts, offset \in Int, tag \in 0..255] ==
    IF ByteAt(sodData, offset) = tag
    THEN JsAdd(offset, sodTotalLength[sodData, offset])
    ELSE offset

\* while (currentIndex <= certIndex): the element at offset must have the
\* SEQUENCE tag; it is returned when its index is certIndex and skipped
\* otherwise.  The length of the certificates [0] collection is not used.
CertificateLoop[sodData \in BigInts, offset \in Int, currentIndex \in Nat, certIndex \in Nat] ==
    IF currentIndex > certIndex
    THEN Throw("Certificate index not found in SOD")
    ELSE IF ByteAt(sodData, offset) = undefined
    THEN Throw("TypeError")
    ELSE IF ByteAt(sodData, offset) /= 48
    THEN Throw("Invalid SOD: expected certificate SEQUENCE")
    ELSE IF currentIndex = certIndex
    THEN Return(SliceAt(sodData, offset, JsAdd(offset, sodTotalLength[sodData, offset])))
    ELSE CertificateLoop[sodData, JsAdd(offset, sodTotalLength[sodData, offset]),
                         currentIndex + 1, certIndex]

extractCertificateFromSOD_ContentOnly(sodData, certIndex) ==
    Return(SliceAt(sodData, 1, Len(sodData)))

extractCertificateFromSOD(sodData, certIndex) ==
    IF ByteAt(sodData, 0) /= 48 THEN Throw("Invalid SOD: expected SEQUENCE")
    ELSE LET oid == sodAfterHeader[sodData, 0]
         IN  IF ByteAt(sodData, oid) /= 6 THEN Throw("Invalid SOD: expected OID")
             ELSE LET explicit == sodSkipIfTag[sodData, oid, 6]
                  IN  IF ByteAt(sodData, explicit) /= 160
                      THEN Throw("Invalid SOD: expected [0] EXPLICIT")
                      ELSE LET signedData == sodAfterHeader[sodData, explicit]
                           IN  IF ByteAt(sodData, signedData) /= 48
                               THEN Throw("Invalid SOD: expected SignedData SEQUENCE")
                               ELSE LET certs ==
                                          sodSkipIfTag[sodData,
                                            sodSkipIfTag[sodData,
                                              sodSkipIfTag[sodData,
                                                sodAfterHeader[sodData, signedData], 2],
                                              49], 48]
                                    IN  IF ByteAt(sodData, certs) /= 160
                                        THEN Throw("Invalid SOD: expected certificates [0]")
                                        ELSE CertificateLoop[sodData, sodAfterHeader[sodData, certs],
                                                             0, certIndex]

(***************************************************************************)
(* Building a SOD and reading certificates back                            *)
(***************************************************************************)
\* data/<certFolder>: csca_cert.pem with its key, and dsc_cert.pem with its
\* key when a document signer was generated.  The certificates are v3
\* certificates as openssl writes them: RSA, or RSA-PSS with all three
\* parameters.
SodSigAlgs ==
    { a \in SigAlgs : \/ a.kind = "RSA"
                      \/ (a.kind = "RSA-PSS" /\ a.hash /\ a.mgf = "mgf1"
                          /\ a.salt /= NoSalt /\ ~a.trailer) }

CscaCertificates ==
    { c \in Certificates : /\ c.version /\ c.sigAlg \in SodSigAlgs
                           /\ c.modulus = <<91, 12, 33>> /\ c.nameLen = ShortNameLen }

DscCertificates ==
    { c \in Certificates : /\ c.version /\ c.sigAlg \in SodSigAlgs
                           /\ c.modulus \in {k.n : k \in AAKeys} /\ c.nameLen = LongFieldLen }

CertFolders == [csca : CscaCertificates, dsc : DscCertificates \cup {None}]

DataGroup1s == { <<97, 91, 95, 31, 88, 80, 60>>, <<97, 91, 95, 31, 88, 80, 60, 85>> }
DataGroup15s == { <<111, 130, 1, 38, 48>> }
Clocks == { <<50, 54, 49, 49, 48, 51, 48, 54, 48, 48, 48, 48, 90>>,
            <<50, 54, 49, 49, 48, 51, 48, 54, 48, 48, 48, 49, 90>> }
PssSalts == { <<7>>, <<9>> }
MaxCertIndex == 2

SodIdle ==
    /\ sodInput = None
    /\ sodResult = None

\* generateBiometricPassportData: dataGroups = {1: dg1Data, 15: dg15Data} and
\* the certificate folder.
SodPrepare ==
    /\ sodInput = None
    /\ sodResult = None
    /\ \E folder \in CertFolders, dg1 \in DataGroup1s, dg15 \in DataGroup15s, now \in Clocks :
           sodInput' = [dataGroups |-> (<<1>> :> dg1) @@ (<<1, 5>> :> dg15),
                        folder |-> folder, now |-> now]
    /\ UNCHANGED <<sodResult, hpVars, mrzVars, aaVars, derVars, certVars, tmpVars, circuitVars>>

\* The certificate generateSOD signs with and embeds: dsc_cert.pem when the
\* folder has one, csca_cert.pem otherwise.
SigningCertificate(folder) == IF folder.dsc /= None THEN folder.dsc ELSE folder.csca

\* The certificate whose signature algorithm decides between the RSA-PSS
\* and the PKCS#1 v1.5 branch: without a dscCert argument certPath is
\* data/<certFolder>/csca_cert.pem.
DetectionCertificate(folder) == folder.csca

\* generateSOD(dataGroups, certFolder)
SodGenerate ==
    /\ sodInput /= None
    /\ sodResult = None
    /\ \E signer \in {SigningCertificate(sodInput.folder)} :
       \E signerDER \in {CertificateDER(signer)} :
       \E lds \in {ldsSecurityObjectAsn1(dataGroupHashBuffers(sodInput.dataGroups))} :
       \E certSigInfo \in {detectSignatureAlgorithm(CertificateDER(DetectionCertificate(sodInput.folder)))} :
       \E embedded \in {forgeCertificate(signerDER)} :
           IF certSigInfo.kind = "throw" \/ embedded.kind = "throw"
           THEN sodResult' = [kind |-> "throw"]
           ELSE \E base \in {createSignedData(toDer(lds), embedded.value, signer, sodInput.now)} :
                IF certSigInfo.value = "RSA-PSS"
                THEN \E saltLength \in {extractSaltLengthFromCert(signerDER)}, salt \in PssSalts :
                     \E signedBytes \in {signedAttrsSetDer(SignerInfoOf(base).value[4])} :
                     \E signature \in {pssSign(signer.modulus, saltLength.value, salt, signedBytes)} :
                     \E p7Asn1 \in {patchRsaPss(base, saltLength.value, signature)} :
                         sodResult' = [kind |-> "generated", isRsaPss |-> TRUE,
                                       signer |-> signerDER, lds |-> lds, base |-> base,
                                       p7Asn1 |-> p7Asn1, saltLength |-> saltLength.value,
                                       signedBytes |-> signedBytes, signature |-> signature,
                                       sod |-> toDer(p7Asn1), extracted |-> None]
                ELSE sodResult' = [kind |-> "generated", isRsaPss |-> FALSE,
                                   signer |-> signerDER, lds |-> lds, base |-> base,
                                   p7Asn1 |-> base, saltLength |-> 0,
                                   signedBytes |-> signedAttrsSetDer(SignerInfoOf(base).value[4]),
                                   signature |-> SignerInfoOf(base).value[6].value,
                                   sod |-> toDer(base), extracted |-> None]
    /\ UNCHANGED <<sodInput, hpVars, mrzVars, aaVars, derVars, certVars, tmpVars, circuitVars>>

\* A SOD read from a passport file that another issuer wrote: a SignedData
\* whose certificates [0] collection holds the given certificates and is
\* followed by the given octets.
MaxCerts == 2

Following ==
    { <<>>,
      DerTLV[49, DerTLV[48, DerTLV[2, <<1>>]]],
      DerTLV[161, DerTLV[48, DerTLV[2, <<1>>]]] \o DerTLV[49, DerTLV[48, DerTLV[2, <<1>>]]],
      DerTLV[48, DerTLV[2, <<1>>]] \o DerTLV[49, DerTLV[48, DerTLV[2, <<1>>]]] }

ReceivedSOD(certs, following) ==
    DerTLV[48, DerTLV[6, signedDataOid]
               \o DerTLV[160, DerTLV[48,
                     DerTLV[2, <<3>>]
                     \o DerTLV[49, DerTLV[48, DerTLV[6, sha256Oid] \o DerNull]]
                     \o DerTLV[48, DerTLV[6, ldsSecurityObjectOid] \o DerTLV[160, DerTLV[4, <<48, 0>>]]]
                     \o DerTLV[160, Concat[certs]]
                     \o following]]]

SodReceive ==
    /\ sodInput = None
    /\ sodResult = None
    /\ \E n \in 0..MaxCerts, following \in Following :
       \E certs \in {[i \in 1..n |-> CertificateDER(CHOOSE c \in CscaCertificates : c.sigAlg.salt = 20 + 12 * (i % 2))]} :
           sodResult' = [kind |-> "received", certs |-> certs, following |-> following,
                         sod |-> ReceivedSOD(certs, following), extracted |-> None]
    /\ UNCHANGED <<sodInput, hpVars, mrzVars, aaVars, derVars, certVars, tmpVars, circuitVars>>

\* extractCertificateFromSOD(sodBuffer, certIndex)
SodExtractCertificate ==
    /\ sodResult.kind \in {"generated", "received"}
    /\ sodResult.extracted = None
    /\ \E certIndex \in 0..MaxCertIndex :
           sodResult' = [sodResult EXCEPT !.extracted =
                           [certIndex |-> certIndex] @@ extractCertificateFromSOD(sodResult.sod, certIndex)]
    /\ UNCHANGED <<sodInput, hpVars, mrzVars, aaVars, derVars, certVars, tmpVars, circuitVars>>

(***************************************************************************)
(* findExpirationOffset: part_004                                          *)
(***************************************************************************)
\* The last steps: the element at offset must be the validity SEQUENCE and
\* its first element a Time; the offset after notBefore is where notAfter
\* starts.  Both messages and the log line read buffer[offset].toString(16),
\* a TypeError beyond the end of the buffer.
ValidityAt[tbsDER \in BigInts, offset \in Int] ==
    IF ByteAt(tbsDER, offset) = undefined THEN Throw("TypeError")
    ELSE IF ByteAt(tbsDER, offset) /= 48
    THEN Throw("Invalid certificate: expected validity SEQUENCE")
    ELSE IF ByteAt(tbsDER, AfterHeader[tbsDER, offset]) = undefined THEN Throw("TypeError")
    ELSE IF ByteAt(tbsDER, AfterHeader[tbsDER, offset]) \notin {23, 24}
    THEN Throw("Invalid certificate: expected Time tag for notBefore")
    ELSE IF ByteAt(tbsDER, SkipIfTag[tbsDER, AfterHeader[tbsDER, offset],
                                     ByteAt(tbsDER, AfterHeader[tbsDER, offset])]) = undefined
    THEN Throw("TypeError")
    ELSE Return(JsAdd(SkipIfTag[tbsDER, AfterHeader[tbsDER, offset],
                                ByteAt(tbsDER, AfterHeader[tbsDER, offset])], 2))

\* findExpirationOffset without the skip of the [0] version element.
findExpirationOffset_VersionNotSkipped(tbsDER) ==
    IF ByteAt(tbsDER, 0) /= 48
    THEN Throw("Invalid certificate: expected tbsCertificate SEQUENCE")
    ELSE ValidityAt[tbsDER,
             SkipIfTag[tbsDER, SkipIfTag[tbsDER, SkipIfTag[tbsDER,
                 AfterHeader[tbsDER, 0], 2], 48], 48]]

findExpirationOffset(tbsDER) ==
    IF ByteAt(tbsDER, 0) /= 48
    THEN Throw("Invalid certificate: expected tbsCertificate SEQUENCE")
    ELSE ValidityAt[tbsDER,
             SkipIfTag[tbsDER, SkipIfTag[tbsDER, SkipIfTag[tbsDER, SkipIfTag[tbsDER,
                 AfterHeader[tbsDER, 0], 160], 2], 48], 48]]

\* Time values: UTCTime YYMMDDhhmmssZ (tag 0x17) and GeneralizedTime
\* YYYYMMDDhhmmssZ (tag 0x18); any other tag carries the UTCTime text.
TimeContent(tag, year) ==
    (IF tag = 24 THEN <<50, 48>> ELSE <<>>)
    \o <<48 + (year \div 10), 48 + (year % 10), 48, 49, 48, 49, 48, 48, 48, 48, 48, 48, 90>>

TimeDER(tag, year) == DerTLV[tag, TimeContent(tag, year)]

\* TBS blocks handed to findExpirationOffset: with and without the version,
\* with a short and a long issuer, with each Time encoding; a block whose
\* validity has another tag, one without validity, and blocks whose
\* notBefore is no Time.
TbsShapes ==
    [version : BOOLEAN, nameLen : {ShortNameLen, LongFieldLen},
     validityTag : {48, 49, 0}, notBefore : {23, 24, 2}, notAfter : {23, 24},
     modulus : {<<91, 12, 33>>, LongModulus(LongModulusLen)}]

TbsPrefix(t) ==
    (IF t.version THEN DerTLV[160, DerTLV[2, <<2>>]] ELSE <<>>)
    \o DerIntegerOf[<<17, 35>>]
    \o SigAlgDER(CHOOSE a \in SigAlgs : a.kind = "RSA")
    \o NameDER(t.nameLen)

TbsValidity(t) ==
    IF t.validityTag = 0 THEN <<>>
    ELSE DerTLV[t.validityTag, TimeDER(t.notBefore, 24) \o TimeDER(t.notAfter, 34)]

TbsContent(t) ==
    TbsPrefix(t) \o TbsValidity(t) \o NameDER(t.nameLen) \o SpkiDER(t.modulus)

TbsBlock(t) == DerTLV[48, TbsContent(t)]

TbsWellFormed(t) == t.validityTag = 48 /\ t.notBefore \in {23, 24}

\* The TBS block is taken out of a certificate.
TbsLoad ==
    /\ certInput = None
    /\ \E t \in TbsShapes :
           certInput' = [tbs |-> t, der |-> TbsBlock(t)]
    /\ UNCHANGED <<certResult, hpVars, mrzVars, aaVars, derVars, sodVars, tmpVars, circuitVars>>

\* set-expiration: findExpirationOffset(tbs)
TbsFindExpirationOffset ==
    /\ certInput /= None
    /\ certResult = None
    /\ certResult' = [op |-> "findExpirationOffset"] @@ findExpirationOffset(certInput.der)
    /\ UNCHANGED <<certInput, hpVars, mrzVars, aaVars, derVars, sodVars, tmpVars, circuitVars>>

(***************************************************************************)
(* The parsers on truncated input: extractPublicKeyFromTBS and             *)
(* extractRSAModulus (part_004), extractCertificateFromSOD (sod.ts)        *)
(***************************************************************************)
\* Octets missing at the end of the buffer.
MaxCut == 8
Cuts == {0, 1, MaxCut}

\* Complete buffers: a TBS block, a subjectPublicKeyInfo, a SOD with one
\* certificate as the last element of its SignedData.
TruncInputs ==
    { [kind |-> "tbs", full |-> TbsBlock(t)] :
        t \in { x \in TbsShapes : TbsWellFormed(x) } }
    \cup { [kind |-> "spki", full |-> SpkiDER(n)] : n \in Moduli }
    \cup { [kind |-> "sod", full |-> ReceivedSOD(<<CertificateDER(c)>>, following)] :
             c \in { x \in CscaCertificates : x.sigAlg.salt \in {NoSalt, 32} },
             following \in {<<>>, DerTLV[49, DerTLV[48, DerTLV[2, <<1>>]]]} }

\* The buffer reaches the parser with its last octets missing.
TruncLoad ==
    /\ certInput = None
    /\ \E in \in TruncInputs, cut \in Cuts :
           certInput' = [kind |-> in.kind, full |-> in.full, cut |-> cut,
                         der |-> SubSeq(in.full, 1, Len(in.full) - cut)]
    /\ UNCHANGED <<certResult, hpVars, mrzVars, aaVars, derVars, sodVars, tmpVars, circuitVars>>

\* extractPublicKeyFromTBS(tbs)
TruncExtractPublicKey ==
    /\ certInput /= None /\ certInput.kind = "tbs"
    /\ certResult = None
    /\ certResult' = [op |-> "extractPublicKeyFromTBS"] @@ extractPublicKeyFromTBS(certInput.der)
    /\ UNCHANGED <<certInput, hpVars, mrzVars, aaVars, derVars, sodVars, tmpVars, circuitVars>>

\* extractRSAModulus(spki)
TruncExtractModulus ==
    /\ certInput /= None /\ certInput.kind = "spki"
    /\ certResult = None
    /\ certResult' = [op |-> "extractRSAModulus"] @@ extractRSAModulus(certInput.der)
    /\ UNCHANGED <<certInput, hpVars, mrzVars, aaVars, derVars, sodVars, tmpVars, circuitVars>>

\* extractCertificateFromSOD(sod)
TruncExtractCertificate ==
    /\ certInput /= None /\ certInput.kind = "sod"
    /\ certResult = None
    /\ certResult' = [op |-> "extractCertificateFromSOD"]
                        @@ extractCertificateFromSOD(certInput.der, 0)
    /\ UNCHANGED <<certInput, hpVars, mrzVars, aaVars, derVars, sodVars, tmpVars, circuitVars>>

(***************************************************************************)
(* Temporary certificate files: computeCertificateKey                      *)
(* (src/crypto/certificate-key.ts) and generateSOD with a dscCert argument *)
(* (part_002)                                                              *)
(***************************************************************************)
\* Calls made one after the other in one process.
MaxCalls == 3

\* Certificates handed to the two functions: two that parse with a modulus
\* hashPacked accepts or rejects, and one whose bytes are no certificate.
TmpCertificates ==
    { CertificateDER(c) :
        c \in { x \in Certificates : /\ x.version /\ x.nameLen = ShortNameLen
                                     /\ x.sigAlg \in SodSigAlgs /\ x.sigAlg.salt \in {NoSalt, 32}
                                     /\ x.modulus \in {<<91, 12, 33>>, LongModulus(LongModulusLen)} } }
    \cup { <<48, 3, 2, 1, 1>> }

\* os.tmpdir()/temp_cert_${Date.now()}_${randomBytes(4)}.pem : a name no
\* earlier call has used.
tmpPemFile(call) == <<"os.tmpdir", "temp_cert", call>>

\* data/tmp_dsc/tmp_cert.pem : the same path in every call.
tmpCertPath == <<"data/tmp_dsc", "tmp_cert.pem">>

\* The try block of computeCertificateKey.
computeCertificateKeyBody(certificateDER) ==
    LET modulus == ModulusOfCertificate(certificateDER)
    IN  IF modulus.kind = "throw" THEN [kind |-> "throw"]
        ELSE [kind |-> hashPacked(modulus.value).kind]

\* forge.pki.privateKeyFromPem(docSignPrivateKey)
privateKeyFromPem(dscKey) ==
    IF dscKey = "RSA PRIVATE KEY" THEN Return(dscKey)
    ELSE Throw("Invalid PEM formatted message")

\* generateSOD between the write of the temporary file and the calls of
\* cleanupTempCert: algorithm detection, the forge certificate and key.
generateSODBody(dscCert, dscKey) ==
    IF detectSignatureAlgorithm(dscCert).kind = "throw" THEN [kind |-> "throw"]
    ELSE IF forgeCertificate(dscCert).kind = "throw" THEN [kind |-> "throw"]
    ELSE IF privateKeyFromPem(dscKey).kind = "throw" THEN [kind |-> "throw"]
    ELSE [kind |-> "return"]

TmpIdle ==
    /\ tmpFiles = {}
    /\ tmpCall = [pc |-> "none", calls |-> 0]

\* computeCertificateKey: fs.writeFileSync(tmpPemFile, certificatePem)
KeyWriteTempFile ==
    /\ tmpCall.pc \in {"none", "exited"}
    /\ tmpCall.calls < MaxCalls
    /\ \E certificateDER \in TmpCertificates :
         tmpCall' = [pc |-> "try", fn |-> "computeCertificateKey", calls |-> tmpCall.calls + 1,
                     file |-> tmpPemFile(tmpCall.calls + 1), cert |-> certificateDER]
    /\ tmpFiles' = tmpFiles \cup {tmpPemFile(tmpCall.calls + 1)}
    /\ UNCHANGED <<hpVars, mrzVars, aaVars, derVars, certVars, sodVars, circuitVars>>

\* computeCertificateKey: try { ... return certificateKey }
KeyTry ==
    /\ tmpCall.pc = "try"
    /\ tmpCall' = [tmpCall EXCEPT !.pc = "finally"]
                    @@ [outcome |-> computeCertificateKeyBody(tmpCall.cert).kind]
    /\ UNCHANGED <<tmpFiles, hpVars, mrzVars, aaVars, derVars, certVars, sodVars, circuitVars>>

\* computeCertificateKey: finally { if (existsSync) unlinkSync }
KeyFinally ==
    /\ tmpCall.pc = "finally"
    /\ tmpFiles' = tmpFiles \ {tmpCall.file}
    /\ tmpCall' = [tmpCall EXCEPT !.pc = "exited"]
    /\ UNCHANGED <<hpVars, mrzVars, aaVars, derVars, certVars, sodVars, circuitVars>>

\* generateSOD(dataGroups, certFolder, dscCert, dscKey):
\* new crypto.X509Certificate(dscCert) reads the certificate, then
\* fs.writeFileSync(tmpCertPath, signingCertPEM)
SodWriteTempFile ==
    /\ tmpCall.pc \in {"none", "exited"}
    /\ tmpCall.calls < MaxCalls
    /\ \E dscCert \in TmpCertificates \ {<<48, 3, 2, 1, 1>>},
          dscKey \in {"RSA PRIVATE KEY", "CERTIFICATE"} :
         tmpCall' = [pc |-> "body", fn |-> "generateSOD", calls |-> tmpCall.calls + 1,
                     file |-> tmpCertPath, cert |-> dscCert, key |-> dscKey]
    /\ tmpFiles' = tmpFiles \cup {tmpCertPath}
    /\ UNCHANGED <<hpVars, mrzVars, aaVars, derVars, certVars, sodVars, circuitVars>>

\* generateSOD from detectSignatureAlgorithm(certPath) to the end of the
\* signing branch: a throw leaves the function, otherwise cleanupTempCert()
\* runs and the function returns.
SodBody ==
    /\ tmpCall.pc = "body"
    /\ \E outcome \in {generateSODBody(tmpCall.cert, tmpCall.key).kind} :
         /\ tmpCall' = [tmpCall EXCEPT !.pc = "exited"] @@ [outcome |-> outcome]
         /\ tmpFiles' = IF outcome = "return" THEN tmpFiles \ {tmpCertPath} ELSE tmpFiles
    /\ UNCHANGED <<hpVars, mrzVars, aaVars, derVars, certVars, sodVars, circuitVars>>

(***************************************************************************)
(* processSingleCircuit and the loop of generateAllVerifiers: part_009     *)
(***************************************************************************)
\* Circuit files found in the circuit directory.
MaxCircuits == 3

\* `code` of a child's 'exit' event: 0, a non-zero exit status, or null
\* when the child was ended by a signal.
SignalExit == 0 - 1
ExitCodes == {0, 1, SignalExit}

\* resolve(value) of the promise: the first call settles it, later ones
\* have no effect.
resolve(promise, value) == IF promise = None THEN value ELSE promise

CircuitIdle == circuit = [i |-> 0, results |-> <<>>, call |-> None]

\* generateAllVerifiers: `await processSingleCircuit(...)` for the next
\* circuit file; the bb.js child is spawned (part_009:32-39).  The result
\* of the call before it, once resolved, is pushed to results.
ProcessSingleCircuit ==
    /\ circuit.i < MaxCircuits
    /\ IF circuit.call = None THEN TRUE ELSE circuit.call.promise /= None
    /\ circuit' = [i |-> circuit.i + 1,
                   results |-> IF circuit.call = None THEN circuit.results
                               ELSE Append(circuit.results, circuit.call.promise),
                   call |-> [kind |-> "call", bbjs |-> "running", cli |-> "none",
                             promise |-> None, code |-> None, cliCode |-> None,
                             cliStarts |-> 0, startedAfterResolve |-> FALSE]]
    /\ UNCHANGED <<hpVars, mrzVars, aaVars, derVars, certVars, sodVars, tmpVars>>

\* child.on('exit', (code) => ...) : part_009:41-75.  After a spawn error
\* the 'exit' event may or may not fire.
BbJsExit ==
    /\ circuit.call /= None
    /\ circuit.call.bbjs \in {"running", "error"}
    /\ \E code \in IF circuit.call.bbjs = "running" THEN ExitCodes ELSE {SignalExit} :
         circuit' = [circuit EXCEPT !.call =
             IF code = 0
             THEN [@ EXCEPT !.bbjs = "exit", !.code = code,
                            !.promise = resolve(@, [success |-> TRUE, method |-> "bb.js"])]
             ELSE [@ EXCEPT !.bbjs = "exit", !.code = code,
                            !.cli = "running",
                            !.cliStarts = @ + 1,
                            !.startedAfterResolve = (circuit.call.promise /= None)]]
    /\ UNCHANGED <<hpVars, mrzVars, aaVars, derVars, certVars, sodVars, tmpVars>>

\* child.on('error', (error) => ...) : part_009:77-80
BbJsError ==
    /\ circuit.call /= None
    /\ circuit.call.bbjs = "running"
    /\ circuit' = [circuit EXCEPT !.call =
           [@ EXCEPT !.bbjs = "error",
                     !.promise = resolve(@, [success |-> FALSE, method |-> "undefined"])]]
    /\ UNCHANGED <<hpVars, mrzVars, aaVars, derVars, certVars, sodVars, tmpVars>>

\* cliChild.on('exit', (cliCode) => ...) : part_009:59-68
CliExit ==
    /\ circuit.call /= None
    /\ circuit.call.cli \in {"running", "error"}
    /\ \E cliCode \in IF circuit.call.cli = "running" THEN ExitCodes ELSE {SignalExit} :
         circuit' = [circuit EXCEPT !.call =
             [@ EXCEPT !.cli = "exit", !.cliCode = cliCode,
                       !.promise = resolve(@, IF cliCode = 0
                                              THEN [success |-> TRUE, method |-> "bb-cli"]
                                              ELSE [success |-> FALSE, method |-> "undefined"])]]
    /\ UNCHANGED <<hpVars, mrzVars, aaVars, derVars, certVars, sodVars, tmpVars>>

\* cliChild.on('error', (error) => ...) : part_009:70-73
CliError ==
    /\ circuit.call /= None
    /\ circuit.call.cli = "running"
    /\ circuit' = [circuit EXCEPT !.call =
           [@ EXCEPT !.cli = "error",
                     !.promise = resolve(@, [success |-> FALSE, method |-> "undefined"])]]
    /\ UNCHANGED <<hpVars, mrzVars, aaVars, derVars, certVars, sodVars, tmpVars>>

(***************************************************************************)
(* generateRandomPassportData (src/passport/random-passport-data.ts) and   *)
(* the generate-passport command of main (src/index.ts)                    *)
(***************************************************************************)
ROMAN_NAMES ==
    <<
       [surname |-> << "C", "A", "E", "S", "A", "R" >>,
        givenNames |-> << "G", "A", "I", "U", "S", " ", "J", "U", "L", "I", "U", "S" >>],
       [surname |-> << "C", "I", "C", "E", "R", "O" >>,
        givenNames |-> << "M", "A", "R", "C", "U", "S", " ", "T", "U", "L", "L", "I", "U", "S" >>],
       [surname |-> << "A", "U", "G", "U", "S", "T", "U", "S" >>,
        givenNames |-> << "G", "A", "I", "U", "S", " ", "O", "C", "T", "A", "V", "I", "U", "S" >>],
       [surname |-> << "A", "N", "T", "O", "N", "I", "U", "S" >>,
        givenNames |-> << "M", "A", "R", "C", "U", "S" >>],
       [surname |-> << "S", "C", "I", "P", "I", "O" >>,
        givenNames |-> << "P", "U", "B", "L", "I", "U", "S", " ", "C", "O", "R", "N", "E", "L", "I", "U", "S" >>],
       [surname |-> << "B", "R", "U", "T", "U", "S" >>,
        givenNames |-> << "M", "A", "R", "C", "U", "S", " ", "J", "U", "N", "I", "U", "S" >>],
       [surname |-> << "P", "O", "M", "P", "E", "I", "U", "S" >>,
        givenNames |-> << "G", "N", "A", "E", "U", "S", " ", "M", "A", "G", "N", "U", "S" >>],
       [surname |-> << "C", "A", "T", "O" >>,
        givenNames |-> << "M", "A", "R", "C", "U", "S", " ", "P", "O", "R", "C", "I", "U", "S" >>],
       [surname |-> << "S", "U", "L", "L", "A" >>,
        givenNames |-> << "L", "U", "C", "I", "U", "S", " ", "C", "O", "R", "N", "E", "L", "I", "U", "S" >>],
       [surname |-> << "G", "R", "A", "C", "C", "H", "U", "S" >>,
        givenNames |-> << "T", "I", "B", "E", "R", "I", "U", "S", " ", "S", "E", "M", "P", "R", "O", "N", "I", "U", "S" >>],
       [surname |-> << "M", "A", "R", "I", "U", "S" >>,
        givenNames |-> << "G", "A", "I", "U", "S" >>],
       [surname |-> << "H", "A", "D", "R", "I", "A", "N" >>,
        givenNames |-> << "P", "U", "B", "L", "I", "U", "S", " ", "A", "E", "L", "I", "U", "S" >>],
       [surname |-> << "T", "R", "A", "J", "A", "N" >>,
        givenNames |-> << "M", "A", "R", "C", "U", "S", " ", "U", "L", "P", "I", "U", "S" >>],
       [surname |-> << "A", "U", "R", "E", "L", "I", "U", "S" >>,
        givenNames |-> << "M", "A", "R", "C", "U", "S" >>],
       [surname |-> << "N", "E", "R", "O" >>,
        givenNames |-> << "L", "U", "C", "I", "U", "S", " ", "D", "O", "M", "I", "T", "I", "U", "S" >>],
       [surname |-> << "T", "I", "B", "E", "R", "I", "U", "S" >>,
        givenNames |-> << "C", "L", "A", "U", "D", "I", "U", "S" >>],
       [surname |-> << "C", "A", "L", "I", "G", "U", "L", "A" >>,
        givenNames |-> << "G", "A", "I", "U", "S", " ", "J", "U", "L", "I", "U", "S" >>],
       [surname |-> << "V", "E", "S", "P", "A", "S", "I", "A", "N" >>,
        givenNames |-> << "T", "I", "T", "U", "S", " ", "F", "L", "A", "V", "I", "U", "S" >>],
       [surname |-> << "S", "E", "N", "E", "C", "A" >>,
        givenNames |-> << "L", "U", "C", "I", "U", "S", " ", "A", "N", "N", "A", "E", "U", "S" >>],
       [surname |-> << "P", "L", "I", "N", "Y" >>,
        givenNames |-> << "G", "A", "I", "U", "S", " ", "S", "E", "C", "U", "N", "D", "U", "S" >>]
    >>

\* n.toString() of a non-negative integer
DecimalString[n \in Nat] ==
    IF n < 10 THEN << Digits[n + 1] >>
    ELSE DecimalString[n \div 10] \o << Digits[(n % 10) + 1] >>

\* str.padStart(n, c): a string of n characters or more is returned as it is.
padStart(str, n, c) ==
    IF Len(str) >= n THEN str ELSE [i \in 1..(n - Len(str)) |-> c] \o str

\* What Math.floor(Math.random() * k) and Math.random() > 0.5 returned in
\* one call, for the draws other than the name and the year: the lowest and
\* the highest value of each range, and values in between.
SampleDraws ==
    { [letter1 |-> 0, letter2 |-> 0, number |-> 0, month |-> 0, day |-> 0,
       male |-> TRUE, personal |-> 0],
      [letter1 |-> 25, letter2 |-> 25, number |-> 9999999, month |-> 11, day |-> 27,
       male |-> FALSE, personal |-> 99999999],
      [letter1 |-> 11, letter2 |-> 0, number |-> 8989023, month |-> 7, day |-> 11,
       male |-> FALSE, personal |-> 42],
      [letter1 |-> 0, letter2 |-> 25, number |-> 42, month |-> 9, day |-> 9,
       male |-> TRUE, personal |-> 18422600] }

\* The record generateRandomPassportData returns for the draws nameDraw (of
\* 20), yearDraw (of 56) and draw.
RandomPassportData(nameDraw, yearDraw, draw) ==
    LET randomName == ROMAN_NAMES[nameDraw + 1]
        passportNumber == << Letters[draw.letter1 + 1] >> \o << Letters[draw.letter2 + 1] >>
                          \o padStart(DecimalString[draw.number], 7, "0")
        year == 50 + yearDraw
        month == 1 + draw.month
        day == 1 + draw.day
        dateOfBirth == padStart(DecimalString[year], 2, "0")
                       \o padStart(DecimalString[month], 2, "0")
                       \o padStart(DecimalString[day], 2, "0")
        sex == IF draw.male THEN << "M" >> ELSE << "F" >>
        personalNumber == << "P" >> \o padStart(DecimalString[draw.personal], 8, "0")
    IN [surname |-> randomName.surname, givenNames |-> randomName.givenNames,
        passportNumber |-> passportNumber,
        nationality |-> << "I", "T", "A" >>,
        dateOfBirth |-> dateOfBirth,
        sex |-> sex,
        expiryDate |-> << "3", "5", "1", "2", "3", "1" >>,
        personalNumber |-> personalNumber,
        issuingCountry |-> << "I", "T", "A" >>]

\* main, command generate-passport: the call of generateRandomPassportData.
GenerateRandomPassportData ==
    /\ mrzInput = None
    /\ \E nameDraw \in 0..(Len(ROMAN_NAMES) - 1), yearDraw \in 0..55, draw \in SampleDraws :
          mrzInput' = RandomPassportData(nameDraw, yearDraw, draw)
    /\ UNCHANGED <<mrzResult, hpVars, aaVars, derVars, certVars, sodVars, tmpVars, circuitVars>>

\* main, command generate-passport: generateBiometricPassportData on the random
\* record, which starts with generateDG1 on it.
GenerateBiometricPassportData ==
    /\ mrzInput /= None
    /\ mrzResult = None
    /\ mrzResult' = generateDG1(mrzInput)
    /\ UNCHANGED <<mrzInput, hpVars, aaVars, derVars, certVars, sodVars, tmpVars, circuitVars>>

(***************************************************************************)
(* Specifications                                                          *)
(***************************************************************************)
Idle == /\ HpIdle /\ MrzIdle /\ AAIdle /\ DerIdle /\ CertIdle /\ SodIdle
        /\ TmpIdle /\ CircuitIdle

InitKey == Idle
NextKey == HpLoad \/ HpDerive
SpecKey == InitKey /\ [][NextKey]_vars

InitMRZ == Idle
NextMRZ == MrzGenerate
SpecMRZ == InitMRZ /\ [][NextMRZ]_vars

InitAA == Idle
NextAA == GeneratePassport \/ UpdateAASignature \/ Authenticate
SpecAA == InitAA /\ [][NextAA]_vars

InitUpdate == Idle
NextUpdate == GeneratePassport \/ ForeignPassportFile \/ UpdateAASignature \/ Authenticate
SpecUpdate == InitUpdate /\ [][NextUpdate]_vars

InitDER == Idle
NextDER == DerRead \/ DerWrite
SpecDER == InitDER /\ [][NextDER]_vars

InitCert == Idle
NextCert == CertLoad \/ CertExtractModulus \/ CertExtractSaltLength \/ CertDetectSignatureAlgorithm
SpecCert == InitCert /\ [][NextCert]_vars

InitSOD == Idle
NextSOD == SodPrepare \/ SodGenerate \/ SodReceive \/ SodExtractCertificate
SpecSOD == InitSOD /\ [][NextSOD]_vars

InitTbs == Idle
NextTbs == TbsLoad \/ TbsFindExpirationOffset
SpecTbs == InitTbs /\ [][NextTbs]_vars

InitTrunc == Idle
NextTrunc == TruncLoad \/ TruncExtractPublicKey \/ TruncExtractModulus \/ TruncExtractCertificate
SpecTrunc == InitTrunc /\ [][NextTrunc]_vars

InitTmp == Idle
NextTmp == KeyWriteTempFile \/ KeyTry \/ KeyFinally \/ SodWriteTempFile \/ SodBody
SpecTmp == InitTmp /\ [][NextTmp]_vars

InitCircuit == Idle
NextCircuit == ProcessSingleCircuit \/ BbJsExit \/ BbJsError \/ CliExit \/ CliError
SpecCircuit == InitCircuit /\ [][NextCircuit]_vars

InitRandom == Idle
NextRandom == GenerateRandomPassportData \/ GenerateBiometricPassportData
SpecRandom == InitRandom /\ [][NextRandom]_vars

(***************************************************************************)
(* Claims about hashPacked                                                 *)
(***************************************************************************)

\* C8: a byte sequence shorter than 120 bytes makes hashPacked fail with
\* InvalidModulusLength before any window is read and without calling the
\* ZK-friendly hash.
C8_ShortInputRejected ==
    (hpPc = "done" /\ Len(hpInput) < 120) =>
        /\ hpResult.kind = "throw"
        /\ hpResult.error = "InvalidModulusLength"
        /\ hpResult.reads = << >>
        /\ hpResult.poseidonCalls = 0

C8_Witness ==
    /\ hpPc = "done"
    /\ Len(hpInput) = 119
    /\ hpResult.kind = "throw"

\* C9: for every modulus of at least 120 bytes hashPacked completes with a
\* key after reading exactly five windows, the i-th being the full 32 bytes
\* of the input that end at position len - 24*i.
C9_FiveFullWindows ==
    (hpPc = "done" /\ Len(hpInput) >= 120) =>
        /\ hpResult.kind = "return"
        /\ Len(hpResult.reads) = 5
        /\ \A i \in 0..4 :
             LET r == hpResult.reads[i + 1]
                 to == Len(hpInput) - 24 * i
             IN /\ r.to = to
                /\ r.from = to - 32
                /\ r.from >= 0
                /\ Len(r.bytes) = 32
                /\ r.bytes = SubSeq(hpInput, to - 31, to)

\* C10: each of the five values handed to the hash is c_0*2^128 + c_1*2^64 +
\* c_2, where c_j is the j-th 64-bit chunk (from the low end) of the 32-byte
\* window read as a big-endian integer; the values are passed in collection
\* order, the window nearest the end of the modulus first.
C10_ReversedChunks ==
    (hpPc = "done" /\ hpResult.kind = "return") =>
        /\ Len(hpResult.value.poseidon) = 5
        /\ \A i \in 0..4 :
             LET to == Len(hpInput) - 24 * i
                 W == SubSeq(hpInput, to - 31, to)
                 c0 == SubSeq(W, 25, 32)
                 c1 == SubSeq(W, 17, 24)
                 c2 == SubSeq(W, 9, 16)
                 v == hpResult.value.poseidon[i + 1]
             IN /\ Len(v) <= 24
                /\ (v = << >> \/ v[1] # 0)
                /\ PadLeft(v, 24) = c0 \o c1 \o c2

C10_Witness ==
    /\ hpPc = "done"
    /\ hpResult.kind = "return"
    /\ Len(hpInput) = 128
    /\ hpInput[128] = 127
    /\ hpResult.value.poseidon[1][1] = 120

(***************************************************************************)
(* Claims about generateDG1                                                *)
(***************************************************************************)
MrzCharset == Range(Letters) \cup Range(Digits) \cup {"<"}

MrzReturned == mrzResult.kind = "return"

\* C5: whenever generateDG1 returns a result, both MRZ lines have exactly 44
\* characters and every character of both lines is one of A-Z, 0-9 or '<'.
C5_LinesWellFormed ==
    MrzReturned =>
        /\ Len(mrzResult.mrzLine1) = 44
        /\ Len(mrzResult.mrzLine2) = 44
        /\ Range(mrzResult.mrzLine1) \subseteq MrzCharset
        /\ Range(mrzResult.mrzLine2) \subseteq MrzCharset

\* The check digit as the claim words it: value('<') = 0, a digit counts as
\* itself, a letter as 10 + its index from 'A'; weights 7, 3, 1 by i mod 3.
C6_Value(c) ==
    IF c = "<" THEN 0
    ELSE IF c \in Range(Digits) THEN (CHOOSE d \in 0..9 : Digits[d + 1] = c)
    ELSE 10 + (CHOOSE k \in 0..25 : Letters[k + 1] = c)

C6_Weight(r) == IF r = 0 THEN 7 ELSE IF r = 1 THEN 3 ELSE 1

RECURSIVE C6_Sum(_, _)
C6_Sum(str, n) ==
    IF n = 0 THEN 0 ELSE C6_Sum(str, n - 1) + C6_Value(str[n]) * C6_Weight((n - 1) % 3)

C6_Digit(str) == Digits[(C6_Sum(str, Len(str)) % 10) + 1]

\* C6: calculateCheckDigit is the weighted sum mod 10 of the claim; the five
\* check digits of line 2 (document number, date of birth, expiry date,
\* personal number, composite) are all computed with it, and the check digit
\* of 'L898902C3' is 6.
C6_CheckDigits ==
    /\ calculateCheckDigit(<< "L", "8", "9", "8", "9", "0", "2", "C", "3" >>) = 6
    /\ (MrzReturned /\ Range(mrzResult.mrzLine2) \subseteq MrzCharset) =>
          LET l2 == mrzResult.mrzLine2
              p1 == Len(mrzResult.passportNumber) + 1
              p2 == p1 + 3 + Len(mrzResult.dateOfBirth) + 1
              p3 == p2 + 1 + Len(mrzResult.expiryDate) + 1
          IN /\ l2[p1] = C6_Digit(mrzResult.passportNumber)
             /\ l2[p2] = C6_Digit(mrzResult.dateOfBirth)
             /\ l2[p3] = C6_Digit(mrzResult.expiryDate)
             /\ l2[43] = C6_Digit(mrzResult.personalNumber)
             /\ l2[44] = C6_Digit(SubSeq(l2, 1, 43))

C6_Witness ==
    /\ MrzReturned
    /\ mrzResult.passportNumber = << "L", "8", "9", "8", "9", "0", "2", "C", "3" >>
    /\ mrzResult.mrzLine2[10] = "6"
    /\ mrzResult.personalNumber = << "Z", "E", "1", "8", "4", "2", "2", "6", "B" >>

C7_LongName ==
    /\ MrzReturned
    /\ Len(mrzResult.surname) + 2 + Len(mrzResult.givenNames) > 39

C7_NameField == SubSeq(mrzResult.mrzLine1, 6, 44)

\* C7 as stated: when surname + '<<' + givenNames is longer than 39
\* characters only the given names are cut: the 39-character name field
\* starts with the complete surname followed by '<<'.
C7_SurnameKept ==
    C7_LongName =>
        /\ Len(mrzResult.mrzLine1) = 44
        /\ Len(mrzResult.surname) + 2 <= 39
        /\ SubSeq(C7_NameField, 1, Len(mrzResult.surname) + 2)
             = mrzResult.surname \o << "<", "<" >>

\* C7 amended: a surname of at most 37 characters is kept whole, followed by
\* '<<' and as many given-name characters (spaces as '<') as fill the 39
\* character field; a longer surname is itself cut to its first 37
\* characters followed by '<<'.  Line 1 has 44 characters either way.
C7_Truncation ==
    C7_LongName =>
        LET sn == mrzResult.surname
            gn == [i \in 1..Len(mrzResult.givenNames) |->
                      IF mrzResult.givenNames[i] = " " THEN "<"
                      ELSE mrzResult.givenNames[i]]
        IN /\ Len(mrzResult.mrzLine1) = 44
           /\ IF Len(sn) <= 37
              THEN C7_NameField = sn \o << "<", "<" >> \o SubSeq(gn, 1, 37 - Len(sn))
              ELSE C7_NameField = SubSeq(sn, 1, 37) \o << "<", "<" >>

C7_Witness ==
    /\ C7_LongName
    /\ Len(mrzResult.surname) = 8
    /\ Len(mrzResult.givenNames) > 29
    /\ mrzResult.mrzLine1[44] # "<"

(***************************************************************************)
(* Active Authentication claims, checked under SpecAA                      *)
(***************************************************************************)
\* C1: sign/verify round trip.  Whatever key pair, challenge and prepared
\* bytes generateAASignature worked with, authenticate accepts the signature
\* it returned, for the same challenge and public key and the SHA-256 layout.
C1_RoundTrip ==
    (run.kind = "update-aa-sig" /\ run.signed) =>
        /\ run.isValid
        /\ authenticate(run.challenge, run.signature, run.dg15, FALSE)
               = [kind |-> "return", value |-> TRUE]

C1_Witness ==
    /\ run.kind = "update-aa-sig"
    /\ run.signed
    /\ run.isValid
    /\ run.exitCode = 0
    /\ files[Len(files)].signature = run.signature

\* C3: authenticate never throws.  Every call returns a boolean, also for an
\* empty signature, an empty key and a key no modulus can be parsed from.
C3_NeverThrows ==
    auth # None => auth.outcome.kind = "return" /\ auth.outcome.value \in BOOLEAN

\* C4: no passport file written by generate-passport or by updateAASignature
\* holds the Active Authentication private key.
C4_NoPrivateKeyPersisted ==
    \A i \in 1..Len(files) : "aaPrivateKey" \notin DOMAIN files[i]


(***************************************************************************)
(* Claims about the DER length codec, checked under SpecDER                *)
(***************************************************************************)
\* The length field of derInput: its first octet and the k octets after it.
DerFirst == derInput.buffer[derInput.offset + 1]
DerCount == IF DerFirst >= 128 THEN DerFirst % 128 ELSE 0
DerOctets == BufferSlice(derInput.buffer, derInput.offset + 1, derInput.offset + 1 + DerCount)
DerFieldInBuffer == derInput.offset + 1 + DerCount <= Len(derInput.buffer)

\* What readLength is specified to return for the length field of derInput.
ReadsAsSpecified(r) ==
    /\ r.bytesRead = 1 + DerCount
    /\ r.length /= undefined
    /\ r.length >= 0
    /\ IF DerFirst < 128
       THEN r.length = DerFirst
       ELSE NatBytes[r.length] = StripZeros(DerOctets)

\* C14: parseDERLength at an offset returns the first octet and consumes one
\* byte when the octet's high bit is clear; otherwise, with k the octet's
\* low seven bits, it returns the big-endian value of the next k octets and
\* consumes 1 + k bytes; and all copies of the reader return the same.
C14_ReadLength ==
    (derResult /= None /\ DerFieldInBuffer) =>
        /\ ReadsAsSpecified(derResult.cert)
        /\ derResult.sod = derResult.cert
        /\ derResult.part012 = derResult.cert

\* The part of C14 that holds: the copies agree on every input, and lengths
\* of up to three octets are read as specified.
C14_CopiesAgree ==
    derResult /= None =>
        /\ derResult.sod = derResult.cert
        /\ derResult.part012 = derResult.cert
        /\ (DerFieldInBuffer /\ DerCount <= 3) => ReadsAsSpecified(derResult.cert)


\* A valid DER length encoding: one octet below 128, or 0x80 + k followed by
\* the k octets of a length of at least 128, the first of them not zero.
ValidDerLength(octets) ==
    /\ Len(octets) >= 1
    /\ IF octets[1] < 128
       THEN Len(octets) = 1
       ELSE /\ Len(octets) = 1 + (octets[1] % 128)
            /\ Len(octets) >= 2
            /\ octets[2] /= 0
            /\ Len(octets) = 2 => octets[2] >= 128

\* The length field of derInput, first octet included.
DerField == BufferSlice(derInput.buffer, derInput.offset, derInput.offset + 1 + DerCount)

\* C15: a valid DER length encoding, decoded by parseDERLength and encoded
\* again by a length writer of the code, gives back the same octets.
C15_RoundTrip ==
    (derResult.kind = "written" /\ DerFieldInBuffer /\ ValidDerLength(DerField)) =>
        \/ derResult.octet = DerField
        \/ derResult.octets82 = DerField

\* The encodings the writers of the code do reproduce: the short form and
\* the two-octet long form.
C15_WritersCover ==
    (derResult.kind = "written" /\ DerFieldInBuffer /\ ValidDerLength(DerField)) =>
        /\ DerCount = 0 => derResult.octet = DerField
        /\ DerCount = 2 => derResult.octets82 = DerField

(***************************************************************************)
(* Claims about the certificate parsers, checked under SpecCert            *)
(***************************************************************************)
\* C11: for a well-formed certificate with an RSA key, signed with RSA or
\* RSA-PSS, with or without the [0] version element,
\* extractRSAModulus(extractPublicKeyFromTBS(extractTBSFromCert(cert))) is
\* the modulus of the certificate's key without a leading 0x00 sign octet.
C11_ModulusExtracted ==
    (certResult.kind /= "none" /\ certResult.op = "modulus") =>
        /\ certResult.kind = "return"
        /\ certResult.value = certInput.cert.modulus

\* A v1 RSA-PSS certificate whose modulus INTEGER has a sign octet and a
\* long-form length has been parsed.
C11_Witness ==
    /\ certResult.kind = "return"
    /\ certResult.op = "modulus"
    /\ certInput.cert.sigAlg.kind = "RSA-PSS"
    /\ ~certInput.cert.version
    /\ Len(certInput.cert.modulus) >= 128
    /\ certInput.cert.modulus[1] >= 128
    /\ certResult.value = certInput.cert.modulus


\* C12: on an RSA-PSS certificate extractSaltLengthFromCert returns the value
\* of the INTEGER inside the [2] element of the signatureAlgorithm
\* parameters, whatever elements precede it, and 32 when the parameters
\* SEQUENCE or the [2] element is absent.
C12_SaltLength ==
    (certResult.kind /= "none" /\ certResult.op = "saltLength"
        /\ certInput.cert.sigAlg.kind \in {"RSA-PSS", "PSS-no-params"}) =>
        /\ certResult.kind = "return"
        /\ certResult.value = IF certInput.cert.sigAlg.salt = NoSalt
                              THEN 32
                              ELSE certInput.cert.sigAlg.salt

\* A two-octet salt length was read behind a [0] element and a [1] element
\* with a long-form length.
C12_Witness ==
    /\ certResult.kind = "return"
    /\ certResult.op = "saltLength"
    /\ certInput.cert.sigAlg.kind = "RSA-PSS"
    /\ certInput.cert.sigAlg.hash
    /\ certInput.cert.sigAlg.mgf = "long"
    /\ certInput.cert.sigAlg.salt = 222
    /\ certResult.value = 222

\* C13: extractSaltLengthFromCert on a certificate whose signature algorithm
\* is not RSA-PSS fails instead of returning a salt length.
C13_NonPssRejected ==
    (certResult.kind /= "none" /\ certResult.op = "saltLength"
        /\ certInput.cert.sigAlg.kind = "RSA") =>
        certResult.kind = "throw"

(***************************************************************************)
(* Claims about the SOD, checked under SpecSOD                             *)
(***************************************************************************)
\* The value of a run of octets read as a big-endian number.
BytesValue[bytes \in BigInts] ==
    IF Len(bytes) = 0 THEN 0
    ELSE 256 * BytesValue[SubSeq(bytes, 1, Len(bytes) - 1)] + bytes[Len(bytes)]

\* The data-group numbers of the LDS security object, in serialised order.
DgNumbers(lds) ==
    [i \in 1..Len(lds.value[3].value) |-> BytesValue[lds.value[3].value[i].value[1].value]]

\* C16: in every SOD built by generateSOD the dataGroupHashValues entries are
\* in strictly ascending numeric order of data-group number (1, 2, 3, 4, 5,
\* 15), so no number appears twice.
C16_AscendingDataGroups ==
    sodResult.kind = "generated" =>
        /\ \A i \in 1..(Len(DgNumbers(sodResult.lds)) - 1) :
               DgNumbers(sodResult.lds)[i] < DgNumbers(sodResult.lds)[i + 1]
        /\ DgNumbers(sodResult.lds) = <<1, 2, 3, 4, 5, 15>>

\* A SOD was built whose encapsulated content lists the six data groups.
C16_Witness ==
    /\ sodResult.kind = "generated"
    /\ Len(DgNumbers(sodResult.lds)) = 6
    /\ DgNumbers(sodResult.lds)[6] = 15
    /\ SignedDataOf(sodResult.p7Asn1).value[3].value
         = DerTLV[6, dataOid] \o DerTLV[160, DerTLV[4, toDer(sodResult.lds)]]


\* C17: for every SOD built by generateSOD, extractCertificateFromSOD(sod, 0)
\* returns exactly the DER of the certificate the SOD was signed with; and
\* when the folder supplies a certificate to embed that is not the signing
\* certificate (a document signer signs, the CSCA certificate is carried),
\* extractCertificateFromSOD(sod, 1) returns that certificate's DER.
C17_BuildUnwrap ==
    (sodResult.kind = "generated" /\ sodResult.extracted /= None) =>
        /\ sodResult.extracted.certIndex = 0 =>
              /\ sodResult.extracted.kind = "return"
              /\ sodResult.extracted.value = CertificateDER(SigningCertificate(sodInput.folder))
        /\ (sodResult.extracted.certIndex = 1 /\ sodInput.folder.dsc /= None) =>
              /\ sodResult.extracted.kind = "return"
              /\ sodResult.extracted.value = CertificateDER(sodInput.folder.csca)

\* The half of C17 that holds: index 0 gives back the signing certificate,
\* byte for byte.
C17_RoundTrip ==
    (sodResult.kind = "generated" /\ sodResult.extracted /= None
        /\ sodResult.extracted.certIndex = 0) =>
        /\ sodResult.extracted.kind = "return"
        /\ sodResult.extracted.value = CertificateDER(SigningCertificate(sodInput.folder))

\* The document signer certificate of a folder, with long-form lengths, was
\* read back from an RSA-PSS SOD at index 0.
C17_Witness ==
    /\ sodResult.kind = "generated"
    /\ sodResult.isRsaPss
    /\ sodInput.folder.dsc /= None
    /\ sodResult.extracted /= None
    /\ sodResult.extracted.certIndex = 0
    /\ sodResult.extracted.kind = "return"
    /\ sodResult.extracted.value = CertificateDER(sodInput.folder.dsc)
    /\ Len(sodResult.extracted.value) > 255

\* Every SOD that generateSOD builds holds one certificate, the signing
\* certificate; asking for index 1 fails.
C17_OneCertificate ==
    sodResult.kind = "generated" =>
        /\ Len(SignedDataOf(sodResult.p7Asn1).value[4].value) = 1
        /\ toDer(SignedDataOf(sodResult.p7Asn1).value[4].value[1]) = sodResult.signer
        /\ (sodResult.extracted /= None /\ sodResult.extracted.certIndex >= 1) =>
              sodResult.extracted.kind = "throw"


\* The number of certificates in the certificates [0] collection of the SOD
\* that was unwrapped.
CertificateCount ==
    IF sodResult.kind = "generated"
    THEN Len(SignedDataOf(sodResult.p7Asn1).value[4].value)
    ELSE Len(sodResult.certs)

\* C18: when the certificates [0] collection holds fewer than certIndex + 1
\* certificates, extractCertificateFromSOD fails, whatever bytes follow the
\* collection; it never returns bytes.
C18_IndexNotFound ==
    (sodResult.kind \in {"generated", "received"} /\ sodResult.extracted /= None
        /\ CertificateCount < sodResult.extracted.certIndex + 1) =>
        sodResult.extracted.kind = "throw"

\* What holds instead: when the octets after the collection do not start
\* with the SEQUENCE tag, the call fails, with the error of a wrong tag or,
\* at the end of the buffer, a TypeError; the "not found" error is never
\* raised.
C18_FailsOnOtherTag ==
    (sodResult.kind \in {"generated", "received"} /\ sodResult.extracted /= None) =>
        /\ sodResult.extracted.kind = "throw" =>
              sodResult.extracted.error /= "Certificate index not found in SOD"
        /\ (CertificateCount < sodResult.extracted.certIndex + 1
             /\ (sodResult.kind = "generated" \/ Len(sodResult.following) = 0
                 \/ sodResult.following[1] /= 48)) =>
              /\ sodResult.extracted.kind = "throw"
              /\ sodResult.extracted.error \in {"Invalid SOD: expected certificate SEQUENCE", "TypeError"}


\* The digestEncryptionAlgorithm of the SOD's SignerInfo.
DigestEncryptionAlgorithm(p7Asn1) == SignerInfoOf(p7Asn1).value[5]

\* C19: every SOD built with an RSA-PSS signing certificate has the RSA-PSS
\* OID as its SignerInfo's digestEncryptionAlgorithm, with parameters whose
\* [2] salt length is the salt length extracted from the signing
\* certificate.
C19_PssSignerInfo ==
    (sodResult.kind = "generated"
        /\ SigningCertificate(sodInput.folder).sigAlg.kind = "RSA-PSS") =>
        /\ DigestEncryptionAlgorithm(sodResult.p7Asn1).value[1] = Leaf(6, rsaPssOid)
        /\ DigestEncryptionAlgorithm(sodResult.p7Asn1).value[2].tag = 48
        /\ DigestEncryptionAlgorithm(sodResult.p7Asn1).value[2].constructed
        /\ BytesValue[DigestEncryptionAlgorithm(sodResult.p7Asn1).value[2].value[3].value[1].value]
             = extractSaltLengthFromCert(sodResult.signer).value

\* What holds: when the RSA-PSS branch is taken, the OID is the RSA-PSS OID
\* and the [2] salt length in the parameters, the salt length extracted
\* from the signing certificate and the salt length the signature was made
\* with are the same number.
C19_PssBranch ==
    (sodResult.kind = "generated" /\ sodResult.isRsaPss) =>
        /\ DigestEncryptionAlgorithm(sodResult.p7Asn1).value[1] = Leaf(6, rsaPssOid)
        /\ DigestEncryptionAlgorithm(sodResult.p7Asn1).value[2].value[3].tag = 162
        /\ BytesValue[DigestEncryptionAlgorithm(sodResult.p7Asn1).value[2].value[3].value[1].value]
             = extractSaltLengthFromCert(sodResult.signer).value
        /\ sodResult.saltLength = extractSaltLengthFromCert(sodResult.signer).value
        /\ \E salt \in PssSalts :
              SignerInfoOf(sodResult.p7Asn1).value[6]
                = Leaf(4, pssSign(SigningCertificate(sodInput.folder).modulus,
                                  sodResult.saltLength, salt, sodResult.signedBytes))


\* The envelope with the two fields of its SignerInfo that the RSA-PSS
\* patch may write replaced by the given ones.
WithSignerFields(p7Asn1, digestEncryptionAlg, encryptedDigest) ==
    [p7Asn1 EXCEPT
        !.value[2].value[1].value[5].value[1].value[5] = digestEncryptionAlg,
        !.value[2].value[1].value[5].value[1].value[6] = encryptedDigest]

\* C20: the RSA-PSS patch changes only the SignerInfo's
\* digestEncryptionAlgorithm and its signature value; version, digest
\* algorithms, encapsulated content, certificates, signer identifier,
\* digest algorithm and signed attributes are as the PKCS#1 v1.5 build
\* produced them, and the bytes that are signed again are the DER of the
\* signed attributes with the first octet (the [0] tag) replaced by 0x31.
C20_PatchFrame ==
    (sodResult.kind = "generated" /\ sodResult.isRsaPss) =>
        /\ sodResult.p7Asn1
             = WithSignerFields(sodResult.base,
                                SignerInfoOf(sodResult.p7Asn1).value[5],
                                SignerInfoOf(sodResult.p7Asn1).value[6])
        /\ \A i \in 1..4 :
              /\ SignedDataOf(sodResult.p7Asn1).value[i] = SignedDataOf(sodResult.base).value[i]
              /\ SignerInfoOf(sodResult.p7Asn1).value[i] = SignerInfoOf(sodResult.base).value[i]
        /\ Head(toDer(SignerInfoOf(sodResult.p7Asn1).value[4])) = 160
        /\ Head(sodResult.signedBytes) = 49
        /\ Tail(sodResult.signedBytes) = Tail(toDer(SignerInfoOf(sodResult.p7Asn1).value[4]))
        /\ sodResult.sod = toDer(sodResult.p7Asn1)

\* A security object of the RSA-PSS branch in which both patched fields
\* differ from what the PKCS#1 v1.5 build had put there.
C20_Witness ==
    /\ sodResult.kind = "generated"
    /\ sodResult.isRsaPss
    /\ SignerInfoOf(sodResult.p7Asn1).value[5] /= SignerInfoOf(sodResult.base).value[5]
    /\ SignerInfoOf(sodResult.p7Asn1).value[6] /= SignerInfoOf(sodResult.base).value[6]
    /\ SignerInfoOf(sodResult.base).value[5].value[1] = Leaf(6, rsaEncryptionOid)
    /\ Len(sodResult.sod) /= Len(toDer(sodResult.base))


\* The messages of the certificate parsers and of the security-object
\* unwrapper whose text holds the byte offset of the unexpected tag
\* (`... at offset ${offset}, got 0x..`): the validity SEQUENCE of
\* findExpirationOffset and the subjectPublicKeyInfo SEQUENCE of
\* extractPublicKeyFromTBS.  Every other throw is `new Error(text)` with a
\* fixed text, or a TypeError raised by undefined.toString(16).
MessagesWithOffset ==
    { "Invalid certificate: expected validity SEQUENCE",
      "Invalid TBS: expected subjectPublicKeyInfo SEQUENCE" }

\* C21: every failure of the certificate extractor and of the
\* security-object unwrapper on an unexpected tag or length is a parse
\* error that records the offending byte offset and the expected tag.
C21_ErrorsRecordOffset ==
    /\ (sodResult.kind \in {"generated", "received"}
          /\ sodResult.extracted /= None /\ sodResult.extracted.kind = "throw") =>
           sodResult.extracted.error \in MessagesWithOffset
    /\ (certResult /= None /\ certResult.op = "modulus" /\ certResult.kind = "throw") =>
           certResult.error \in MessagesWithOffset


\* C22: every temporary certificate file written by computeCertificateKey
\* or by generateSOD (called with a signing certificate) is removed on
\* every exit path: once the call has returned or thrown, the file it
\* wrote does not exist.
C22_TempFileRemoved ==
    tmpCall.pc = "exited" => tmpCall.file \notin tmpFiles

\* What holds: computeCertificateKey leaves no file behind, whether its
\* try block returned or threw, and generateSOD leaves none when it
\* returns.
C22_RemovedByFinally ==
    /\ (tmpCall.pc = "exited" /\ tmpCall.fn = "computeCertificateKey") =>
           tmpCall.file \notin tmpFiles
    /\ (tmpCall.pc = "exited" /\ tmpCall.fn = "generateSOD" /\ tmpCall.outcome = "return") =>
           tmpCall.file \notin tmpFiles
    /\ \A f \in tmpFiles : f = tmpCertPath \/ (tmpCall.pc /= "exited" /\ f = tmpCall.file)


\* The bb.js child of the current call has failed: it exited with a
\* non-zero code or its spawn raised 'error'.
BbJsFailed ==
    /\ circuit.call /= None
    /\ \/ circuit.call.bbjs = "error"
       \/ (circuit.call.bbjs = "exit" /\ circuit.call.code /= 0)

\* C27: processSingleCircuit runs bb.js first; the bb CLI child is started
\* at most once and only after bb.js has ended without success, and every
\* failure of bb.js (non-zero exit or spawn error) leads to the bb CLI
\* attempt.  The promise resolves with success and method 'bb.js' iff
\* bb.js exited with 0, with success and method 'bb-cli' iff bb.js failed
\* and the CLI exited with 0, and with success = false otherwise; no child
\* is started after the promise has resolved.
C27_Fallback ==
    circuit.call /= None =>
        /\ circuit.call.cliStarts <= 1
        /\ circuit.call.cliStarts = 1 => BbJsFailed
        /\ (BbJsFailed /\ circuit.call.promise /= None) => circuit.call.cliStarts = 1
        /\ circuit.call.promise /= None =>
             /\ (circuit.call.promise.success /\ circuit.call.promise.method = "bb.js")
                    <=> (circuit.call.bbjs = "exit" /\ circuit.call.code = 0)
             /\ (circuit.call.promise.success /\ circuit.call.promise.method = "bb-cli")
                    <=> (BbJsFailed /\ circuit.call.cli = "exit" /\ circuit.call.cliCode = 0)
        /\ ~circuit.call.startedAfterResolve

\* What holds: the CLI child is started at most once and only after a
\* failed bb.js, and a promise resolved with success names the child that
\* exited with 0.
C27_CliOnlyAfterFailure ==
    circuit.call /= None =>
        /\ circuit.call.cliStarts <= 1
        /\ circuit.call.cliStarts = 1 => BbJsFailed
        /\ (circuit.call.promise /= None /\ circuit.call.promise.success) =>
             \/ (circuit.call.promise.method = "bb.js" /\ circuit.call.code = 0)
             \/ (circuit.call.promise.method = "bb-cli" /\ BbJsFailed /\ circuit.call.cliCode = 0)


\* Index of the notAfter Time tag in the block, counted from the layout
\* the block was built with: the header of the TBS SEQUENCE, the elements
\* before validity, the header of validity, and notBefore.
NotAfterIndex(t) ==
    (Len(TbsBlock(t)) - Len(TbsContent(t)))
    + Len(TbsPrefix(t))
    + (Len(TbsValidity(t)) - Len(TimeDER(t.notBefore, 24)) - Len(TimeDER(t.notAfter, 34)))
    + Len(TimeDER(t.notBefore, 24))

\* C23: for every well-formed TBS block, with or without the [0] version
\* and with notBefore as UTCTime or GeneralizedTime, findExpirationOffset
\* returns p + 2 where p is the index of the notAfter Time tag, which is
\* the index of the first content byte of notAfter; it fails when the
\* validity SEQUENCE or the notBefore Time tag is not where expected.
C23_ExpirationOffset ==
    (certResult /= None /\ certResult.op = "findExpirationOffset") =>
        IF TbsWellFormed(certInput.tbs)
        THEN /\ certResult.kind = "return"
             /\ certResult.value = NotAfterIndex(certInput.tbs) + 2
             /\ certInput.der[NotAfterIndex(certInput.tbs) + 1] = certInput.tbs.notAfter
             /\ SubSeq(certInput.der, certResult.value + 1,
                       certResult.value + Len(TimeContent(certInput.tbs.notAfter, 34)))
                  = TimeContent(certInput.tbs.notAfter, 34)
        ELSE certResult.kind = "throw"

\* A v3 block with a long issuer and a GeneralizedTime notBefore whose
\* offset has been returned.
C23_Witness ==
    /\ certResult /= None
    /\ certResult.op = "findExpirationOffset"
    /\ certResult.kind = "return"
    /\ certInput.tbs.version
    /\ certInput.tbs.notBefore = 24
    /\ certInput.tbs.nameLen = LongFieldLen
    /\ certResult.value > 128


TruncOps == {"extractPublicKeyFromTBS", "extractRSAModulus", "extractCertificateFromSOD"}

\* C30: extractPublicKeyFromTBS, extractRSAModulus and
\* extractCertificateFromSOD never return a slice shorter than the length
\* declared in the element's header: when a declared length or a skip runs
\* past the end of the buffer (truncated input), the operation fails
\* instead of returning the octets that happen to be there.
C30_TruncatedInputFails ==
    /\ (certResult /= None /\ certResult.kind = "return"
           /\ certResult.op \in {"extractPublicKeyFromTBS", "extractCertificateFromSOD"}) =>
            Len(certResult.value) = TotalLength[certResult.value, 0]
    /\ (certResult /= None /\ certResult.op \in TruncOps /\ certInput.cut > 0) =>
            certResult.kind = "throw"

\* What holds: on a complete buffer each operation returns the whole
\* element, and what it returns for a truncated buffer is a prefix of that.
C30_PrefixOfElement ==
    (certResult /= None /\ certResult.op \in TruncOps /\ certResult.kind = "return") =>
        \E whole \in { IF certResult.op = "extractPublicKeyFromTBS"
                       THEN extractPublicKeyFromTBS(certInput.full)
                       ELSE IF certResult.op = "extractRSAModulus"
                       THEN extractRSAModulus(certInput.full)
                       ELSE extractCertificateFromSOD(certInput.full, 0) } :
            /\ whole.kind = "return"
            /\ Len(certResult.value) <= Len(whole.value)
            /\ certResult.value = SubSeq(whole.value, 1, Len(certResult.value))
            /\ certInput.cut = 0 => certResult.value = whole.value


\* The modulus of the passport the last update-aa-sig run signed for.
RunModulus == extractModulusFromDG15(run.dg15).value

\* What authenticate deciphers from the signature of the last run.
RunDecipher ==
    bigIntToBuffer[modPow(bufferToBigInt(run.signature), publicExponent,
                          bufferToBigInt(RunModulus)),
                   Len(RunModulus)]

\* C24: the block that generateAASignature exponentiates has exactly
\* RSA_SIZE bytes: header 0x01, prepared (RSA_SIZE minus header, digest and
\* trailer: RSA_SIZE - 35 with SHA-256), digest = SHA-256(prepared ||
\* challenge), trailer 0x34 0xCC, without gap or overlap; the signature has
\* exactly RSA_SIZE bytes, left-padded with zeros, and authenticate reads
\* prepared and digest from the same byte ranges.
C24_BlockLayout ==
    (run.kind = "update-aa-sig" /\ run.signed) =>
        \E RSA_SIZE \in {Len(RunModulus)} :
        \E digest \in {createHash(HashLenSha256, run.prepared \o run.challenge)} :
        \E decrypted \in {RunDecipher} :
            /\ Len(run.prepared) = RSA_SIZE - (1 + HashLenSha256 + Len(Trailer))
            /\ AAMessage(RSA_SIZE, run.prepared, digest)
                 = <<1>> \o run.prepared \o digest \o <<52, 204>>
            /\ Len(AAMessage(RSA_SIZE, run.prepared, digest)) = RSA_SIZE
            /\ Len(run.signature) = RSA_SIZE
            /\ decrypted = <<1>> \o run.prepared \o digest \o <<52, 204>>
            /\ BufferSlice(decrypted, 1, 1 + Len(run.prepared)) = run.prepared
            /\ BufferSlice(decrypted, RSA_SIZE - 2 - HashLenSha256, RSA_SIZE - 2) = digest
            /\ run.isValid
            /\ \A value \in {<<>>, <<5>>, <<1, 0>>} :
                  bigIntToBuffer[value, RSA_SIZE] = Zeros(RSA_SIZE - Len(value)) \o value

\* A run that signed with prepared bytes that are not all zero.
C24_Witness ==
    /\ run.kind = "update-aa-sig"
    /\ run.signed
    /\ run.prepared[1] /= 0
    /\ Len(run.signature) = Len(RunModulus)
    /\ RunDecipher[1] = 1


\* The length a hand-written 0x82 header at 0-based offset off declares.
Declared82(buf, off) == 256 * buf[off + 3] + buf[off + 4]

\* The checks of C25 on one object built for the modulus n: every header
\* declares the length of what follows it, the modulus stands at offset 37,
\* and both readers return it.
DG15Consistent(dg15, n) ==
    /\ dg15[1] = 111 /\ dg15[2] = 130 /\ Declared82(dg15, 0) = Len(dg15) - 4
    /\ dg15[5] = 48 /\ dg15[6] = 130 /\ Declared82(dg15, 4) = Len(dg15) - 8
    /\ dg15[9] = 48 /\ dg15[10] = 13
    /\ SubSeq(dg15, 11, 23) = DerTLV[6, rsaEncryptionOid] \o DerNull
    /\ dg15[24] = 3 /\ dg15[25] = 130 /\ Declared82(dg15, 23) = Len(dg15) - 27
    /\ dg15[28] = 0
    /\ dg15[29] = 48 /\ dg15[30] = 130 /\ Declared82(dg15, 28) = Len(dg15) - 32
    /\ dg15[33] = 2 /\ dg15[34] = 130 /\ Declared82(dg15, 32) = Len(n) + 1
    /\ dg15[37] = 0
    /\ SubSeq(dg15, 38, 37 + Len(n)) = n
    /\ SubSeq(dg15, 38 + Len(n), Len(dg15)) = <<2, 3, 1, 0, 1>>
    /\ extractRSAModulus(SubSeq(dg15, 5, Len(dg15))) = Return(n)
    /\ extractModulusFromDG15(dg15) = Return(n)

\* C25: in every Active Authentication public-key object generateDG15
\* builds, each hand-written length header equals the length of the value
\* after it, the modulus starts at the same offset in every object, and
\* extractRSAModulus applied to the object without its 4-byte application
\* header returns the modulus of the generated key (256 bytes for the
\* 2048-bit keys generateDG15 generates).
C25_DG15Layout ==
    /\ \A i \in 1..Len(files) :
          \E key \in AAKeys : DG15Consistent(files[i].dg15, key.n)
    /\ files /= <<>> =>
          DG15Consistent(generateDG15(LongModulus(2 * LongModulusLen)),
                         LongModulus(2 * LongModulusLen))

\* Passports of two different keys have been generated.
C25_Witness ==
    /\ Len(files) = 2
    /\ files[1].dg15 /= files[2].dg15
    /\ Len(files[1].dg15) = Len(files[2].dg15)


\* C26: updateAASignature writes a passport file only after authenticate
\* has accepted the fresh signature against the DG15 modulus.  A run whose
\* verification returns false, or whose passport has no aaPrivateKey, ends
\* with exit code 1 and writes no file; a file that is written differs
\* from the loaded passport only in its signature field.
C26_SaveOnlyVerified ==
    [][(run' /= run /\ run'.kind = "update-aa-sig") =>
          /\ "aaPrivateKey" \notin DOMAIN files[Len(files)] =>
                 (run'.exitCode = 1 /\ ~run'.signed)
          /\ (run'.signed /\ ~run'.isValid) => run'.exitCode = 1
          /\ run'.exitCode = 1 => files' = files
          /\ run'.exitCode /= 1 =>
                 /\ run'.exitCode = 0 /\ run'.signed /\ run'.isValid
                 /\ authenticate(run'.challenge, run'.signature,
                                 files[Len(files)].dg15, FALSE) = Return(TRUE)
                 /\ files' = Append(files, [files[Len(files)] EXCEPT
                                               !.signature = run'.signature])
                 /\ files'[Len(files')].signature /= files[Len(files)].signature]_vars

\* A run whose fresh signature authenticate rejected: it ended with exit
\* code 1 and the directory holds the one file it started with.
C26_Witness ==
    /\ run.kind = "update-aa-sig"
    /\ run.signed
    /\ ~run.isValid
    /\ run.exitCode = 1
    /\ Len(files) = 1


\* Framings put in place of the header byte and the trailer of a deciphered
\* block: another header, another trailer, and both. The headers are below
\* 0x80, so the block stays below the modulus and has a signature.
OtherFramings ==
    { [header |-> 127, trailer |-> <<52, 204>>],
      [header |-> 1, trailer |-> <<0, 0>>],
      [header |-> 0, trailer |-> <<255, 255>>] }

\* block with its first byte and its last two bytes replaced.
Reframed(block, header, trailer) ==
    [block EXCEPT ![1] = header, ![Len(block) - 1] = trailer[1], ![Len(block)] = trailer[2]]

\* The keys of the model whose DG15 is the public key of the last
\* authenticate call.
AuthKeys == { key \in AAKeys : generateDG15(key.n) = auth.publicKeyDER }

\* C28: the verdict of authenticate depends only on the challenge and on
\* the prepared and digest bytes of the deciphered block: the header byte
\* and the two trailer bytes are never compared with 0x01 and 0x34 0xCC,
\* so a signature whose block differs from another's only in these three
\* bytes gets the same verdict.
C28_FramingIgnored ==
    (auth /= None /\ auth.signature /= <<>>) =>
        \A key \in AuthKeys :
        \E block \in {bigIntToBuffer[modPow(bufferToBigInt(auth.signature), publicExponent,
                                            bufferToBigInt(key.n)), Len(key.n)]} :
        \A framing \in OtherFramings :
        \E signature \in {bigIntToBuffer[modPow(bufferToBigInt(Reframed(block, framing.header,
                                                                         framing.trailer)),
                                                bufferToBigInt(key.d),
                                                bufferToBigInt(key.n)), Len(key.n)]} :
            authenticate(auth.challenge, signature, auth.publicKeyDER, auth.isSha1)
                = auth.outcome

\* An accepted signature: each signature of the same block with another
\* header and trailer is accepted as well.
C28_Witness ==
    /\ auth /= None
    /\ auth.signature /= <<>>
    /\ AuthKeys /= {}
    /\ auth.outcome = Return(TRUE)
    /\ \E key \in AuthKeys :
          authenticate(auth.challenge,
                       bigIntToBuffer[modPow(
                           bufferToBigInt(Reframed(
                               bigIntToBuffer[modPow(bufferToBigInt(auth.signature),
                                                     publicExponent, bufferToBigInt(key.n)),
                                              Len(key.n)], 127, <<0, 0>>)),
                           bufferToBigInt(key.d), bufferToBigInt(key.n)), Len(key.n)],
                       auth.publicKeyDER, auth.isSha1) = Return(TRUE)


(***************************************************************************)
(* Claims about generateRandomPassportData, checked under SpecRandom       *)
(***************************************************************************)

\* C29: every record generateRandomPassportData returns is a valid MRZ
\* input: passportNumber has 9 characters, dateOfBirth and expiryDate are
\* exactly 6 digits, personalNumber has at most 14 characters, the name
\* field fits in 39 characters, and generateDG1 on the record does not fail
\* with an MRZ line-length error.
C29_ValidMrzInput ==
    (mrzInput /= None) =>
        /\ Len(mrzInput.passportNumber) = 9
        /\ Len(mrzInput.dateOfBirth) = 6
        /\ Range(mrzInput.dateOfBirth) \subseteq Range(Digits)
        /\ Len(mrzInput.expiryDate) = 6
        /\ Range(mrzInput.expiryDate) \subseteq Range(Digits)
        /\ Len(mrzInput.personalNumber) <= PersonalNumberLength
        /\ Len(mrzInput.surname) + 2 + Len(mrzInput.givenNames) <= maxNameLength
        /\ (mrzResult /= None => mrzResult.kind = "return")

\* What does hold of the generator: every field but dateOfBirth is as C29
\* says, dateOfBirth has 6 digits for the years 50..99 and 7 for 100..105,
\* and generateDG1 throws for exactly the records with 7.
C29_OnlyBirthYear ==
    (mrzInput /= None) =>
        /\ Len(mrzInput.passportNumber) = 9
        /\ Len(mrzInput.dateOfBirth) \in {6, 7}
        /\ Range(mrzInput.dateOfBirth) \subseteq Range(Digits)
        /\ Len(mrzInput.dateOfBirth) = 7 => mrzInput.dateOfBirth[1] = "1"
        /\ Len(mrzInput.personalNumber) = 9
        /\ Len(mrzInput.surname) + 2 + Len(mrzInput.givenNames) <= maxNameLength
        /\ (mrzResult /= None =>
               IF Len(mrzInput.dateOfBirth) = 7
               THEN mrzResult = [kind |-> "throw", error |-> "InvalidMRZLength", line |-> 2]
               ELSE mrzResult.kind = "return")
====
